---- MODULE Spec2Model ----
(***************************************************************************)
(* Control-flow flattening engine of lobfuscate.c: block analysis, state   *)
(* shuffling and encoding, flat dispatcher generation, the luaO_flatten    *)
(* entry point and the metadata codec.                                     *)
(*                                                                         *)
(* Conventions: program counters, block indices and register numbers are   *)
(* 0-based as in the C code; a C array a[0..n-1] is the sequence           *)
(* <<a[0], ..., a[n-1]>>, read with At(a, i).  -1 is the C "none" value.   *)
(* An unsigned int is a pair <<hi, lo>> of 16-bit halves.                  *)
(***************************************************************************)
EXTENDS Integers, Sequences, FiniteSets, TLC

At(s, i) == s[i + 1]

Max(a, b) == IF a > b THEN a ELSE b

\* ------------------------------------------------------------------------
\* unsigned 32-bit arithmetic on <<hi, lo>> halves
\* ------------------------------------------------------------------------
W16 == 256 * 256

RECURSIVE XorBits(_, _, _)
XorBits(a, b, n) ==
  IF n = 0 THEN 0
  ELSE (((a % 2) + (b % 2)) % 2) + 2 * XorBits(a \div 2, b \div 2, n - 1)

U32Xor(s, k) == <<XorBits(s[1], k[1], 16), XorBits(s[2], k[2], 16)>>

\* seed % m for 0 < m <= 30000
U32Mod(s, m) == ((((s[1] % m) * (W16 % m)) % m) + (s[2] % m)) % m

LCG_A == <<25, 26125>>
LCG_C == <<15470, 62303>>

NEXT_RAND(s) ==
  LET t0 == LCG_A[2] * s[2] + LCG_C[2]
      t1 == LCG_A[2] * s[1] + LCG_A[1] * s[2] + LCG_C[1] + (t0 \div W16)
  IN  <<t1 % W16, t0 % W16>>

\* ------------------------------------------------------------------------
\* instruction words
\* ------------------------------------------------------------------------
OFFSET_sJ  == 16777215
OFFSET_sBx == 65535
OFFSET_sC  == 32767

int2sC(i) == i + OFFSET_sC
sC2int(i) == i - OFFSET_sC

CREATE_ABCk(o, a, b, c, k) == [op |-> o, a |-> a, b |-> b, c |-> c, k |-> k]
CREATE_ABx(o, a, bx)       == [op |-> o, a |-> a, b |-> bx, c |-> 0, k |-> 0]
CREATE_sJ(o, sj, k)        == [op |-> o, a |-> 0, b |-> sj, c |-> 0, k |-> k]

GET_OPCODE(i) == i.op
GETARG_sJ(i)  == i.b - OFFSET_sJ
GETARG_sBx(i) == i.b - OFFSET_sBx
GETARG_Bx(i)  == i.b
SETARG_sJ(i, off) == [i EXCEPT !.b = off + OFFSET_sJ]

luaO_isJumpInstruction(op) ==
  op \in {"JMP", "FORLOOP", "FORPREP", "TFORPREP", "TFORLOOP"}

isConditionalTest(op) ==
  op \in {"EQ", "LT", "LE", "EQK", "EQI", "LTI", "LEI", "GTI", "GEI",
          "TEST", "TESTSET", "TESTNIL"}

isReturnInstruction(op) ==
  op \in {"RETURN", "RETURN0", "RETURN1", "TAILCALL"}

luaO_isBlockTerminator(op) ==
  \/ op = "JMP"
  \/ isConditionalTest(op)
  \/ isReturnInstruction(op)
  \/ op \in {"FORLOOP", "FORPREP", "TFORPREP", "TFORLOOP", "TFORCALL"}

isLoopOpcode(op) ==
  op \in {"FORLOOP", "FORPREP", "TFORPREP", "TFORLOOP", "TFORCALL"}

luaO_getJumpTarget(inst, pc) ==
  CASE GET_OPCODE(inst) = "JMP" -> pc + 1 + GETARG_sJ(inst)
    [] GET_OPCODE(inst) \in {"FORLOOP", "TFORLOOP"} -> pc + 1 - GETARG_Bx(inst)
    [] GET_OPCODE(inst) \in {"FORPREP", "TFORPREP"} -> pc + 1 + GETARG_Bx(inst)
    [] OTHER -> -1

\* ------------------------------------------------------------------------
\* basic blocks
\* ------------------------------------------------------------------------
\* addBlock marking every block as the entry
addBlock_entryEverywhere(blocks, start_pc, end_pc) ==
  Append(blocks,
         [start_pc |-> start_pc, end_pc |-> end_pc, state_id |-> Len(blocks),
          original_target |-> -1, fall_through |-> -1, cond_target |-> -1,
          is_entry |-> TRUE, is_exit |-> FALSE])

addBlock(blocks, start_pc, end_pc) ==
  Append(blocks,
         [start_pc |-> start_pc, end_pc |-> end_pc, state_id |-> Len(blocks),
          original_target |-> -1, fall_through |-> -1, cond_target |-> -1,
          is_entry |-> (start_pc = 0), is_exit |-> FALSE])

findBlockStartingAt(blocks, pc) ==
  IF \E i \in 0..(Len(blocks) - 1) : At(blocks, i).start_pc = pc
  THEN CHOOSE i \in 0..(Len(blocks) - 1) :
         /\ At(blocks, i).start_pc = pc
         /\ \A j \in 0..(i - 1) : At(blocks, j).start_pc # pc
  ELSE -1

\* first pass of luaO_identifyBlocks: the set of leader offsets
isLeader(code, p) ==
  LET n == Len(code) IN
  \/ p = 0
  \/ \E pc \in 0..(n - 1) :
       LET inst == At(code, pc)
           op   == GET_OPCODE(inst)
       IN  \/ /\ luaO_isJumpInstruction(op)
              /\ \/ luaO_getJumpTarget(inst, pc) = p
                 \/ (op # "JMP" /\ pc + 1 = p)
           \/ (isConditionalTest(op) /\ pc + 2 = p)
           \/ (isReturnInstruction(op) /\ pc + 1 = p)

\* second pass: cut a block at every leader and at the end of the code
RECURSIVE partitionBlocks(_, _, _, _)
partitionBlocks(code, blocks, block_start, pc) ==
  IF pc > Len(code) THEN blocks
  ELSE IF pc = Len(code) \/ isLeader(code, pc)
       THEN partitionBlocks(code, addBlock(blocks, block_start, pc), pc, pc + 1)
       ELSE partitionBlocks(code, blocks, block_start, pc + 1)

\* third pass: the exits of one block
analyzeExit(code, blocks, i) ==
  LET block   == At(blocks, i)
      last_pc == block.end_pc - 1
      inst    == At(code, last_pc)
      op      == GET_OPCODE(inst)
      target  == luaO_getJumpTarget(inst, last_pc)
      next    == findBlockStartingAt(blocks, block.end_pc)
      isJ     == luaO_isJumpInstruction(op) /\ target >= 0
      b1 == [block EXCEPT !.is_exit = isReturnInstruction(op)]
      b2 == IF isJ
            THEN [b1 EXCEPT !.original_target = findBlockStartingAt(blocks, target),
                            !.fall_through = IF op # "JMP" THEN next ELSE -1]
            ELSE b1
      b3 == IF isConditionalTest(op)
            THEN [b2 EXCEPT !.cond_target = findBlockStartingAt(blocks, last_pc + 2),
                            !.fall_through = next]
            ELSE b2
      b4 == IF ~luaO_isBlockTerminator(op) /\ block.end_pc < Len(code)
            THEN [b3 EXCEPT !.fall_through = next]
            ELSE b3
  IN  b4

luaO_identifyBlocks(code) ==
  LET parts == partitionBlocks(code, <<>>, 0, 1)
  IN  [i \in 1..Len(parts) |-> analyzeExit(code, parts, i - 1)]

\* ------------------------------------------------------------------------
\* shuffling and state encoding
\* ------------------------------------------------------------------------
\* the exchange without its temporary: both blocks end with the id of j
swapStateIds_noTemp(blocks, i, j) ==
  [blocks EXCEPT ![i + 1].state_id = At(blocks, j).state_id]

swapStateIds(blocks, i, j) ==
  [blocks EXCEPT ![i + 1].state_id = At(blocks, j).state_id,
                 ![j + 1].state_id = At(blocks, i).state_id]

\* the shuffle drawing its partner from every block, block 0 included
RECURSIVE shuffleFrom_fromZero(_, _, _)
shuffleFrom_fromZero(blocks, seed, i) ==
  IF i > 1
  THEN LET s == NEXT_RAND(seed)
           j == U32Mod(s, i + 1)
       IN  shuffleFrom_fromZero(swapStateIds(blocks, i, j), s, i - 1)
  ELSE [blocks |-> blocks, seed |-> seed]

RECURSIVE shuffleFrom(_, _, _)
shuffleFrom(blocks, seed, i) ==
  IF i > 1
  THEN LET s == NEXT_RAND(seed)
           j == 1 + U32Mod(s, i)
       IN  shuffleFrom(swapStateIds(blocks, i, j), s, i - 1)
  ELSE [blocks |-> blocks, seed |-> seed]

luaO_shuffleBlocks(blocks, seed) ==
  IF Len(blocks) <= 2
  THEN [blocks |-> blocks, seed |-> seed]
  ELSE shuffleFrom(blocks, seed, Len(blocks) - 1)

ENC_RANGE == 30000
ENC_PRIME == 7919

\* C remainder (truncating) for a possibly negative dividend
CRem(a, b) == IF a >= 0 THEN a % b ELSE 0 - ((0 - a) % b)

\* the encoding without its final reduction
luaO_encodeState_noFinalMod(state, seed) ==
  LET offset  == U32Mod(seed, ENC_RANGE)
      encoded == CRem(state * ENC_PRIME, ENC_RANGE) + offset
  IN  IF encoded < 0 THEN encoded + ENC_RANGE ELSE encoded

luaO_encodeState(state, seed) ==
  LET offset  == U32Mod(seed, ENC_RANGE)
      encoded == CRem(CRem(state * ENC_PRIME, ENC_RANGE) + offset, ENC_RANGE)
  IN  IF encoded < 0 THEN encoded + ENC_RANGE ELSE encoded

\* ------------------------------------------------------------------------
\* code emission.  The generator state g holds the context (its new_code is
\* the array under construction), the local pseudo-random seed in use and
\* the bookkeeping arrays of luaO_generateDispatcher.
\* ------------------------------------------------------------------------
HasFlag(ctx, fl) == fl \in ctx.obfuscate_flags

\* state value as it is written into the code (encoded when STATE_ENCODE)
encodedState(ctx, state) ==
  IF HasFlag(ctx, "STATE_ENCODE") THEN luaO_encodeState(state, ctx.seed)
  ELSE state

\* TRUE; asking it evaluates the code emitted so far (and the seed), so that
\* long emission chains are computed step by step
Ready(g) == Len(g.ctx.new_code) >= 0 /\ g.seed[1] >= 0

\* the seed after k applications of NEXT_RAND
RECURSIVE Rand(_, _)
Rand(s, k) == IF k = 0 THEN s ELSE Rand(NEXT_RAND(s), k - 1)

emitInstruction(g, inst) == [g EXCEPT !.ctx.new_code = Append(@, inst)]

\* LOADI state_reg, next ; JMP dispatcher
emitStateJump(g, next_state) ==
  emitInstruction(
    emitInstruction(g, CREATE_ABx("LOADI", g.ctx.state_reg, next_state + OFFSET_sBx)),
    CREATE_sJ("JMP",
              (g.ctx.dispatcher_pc - (Len(g.ctx.new_code) + 1) - 1) + OFFSET_sJ, 0))

BOGUS_BLOCK_RATIO  == 2
NUM_FAKE_FUNCTIONS == 3
FAKE_FUNC_BLOCKS   == 4
FAKE_BLOCK_INSTS   == 5
NUM_OPAQUE_VARIANTS == 4

generateBogusInstruction(ctx, seed) ==
  LET max_reg == ctx.state_reg
      inst_type == U32Mod(Rand(seed, 1), 4)
      reg == U32Mod(Rand(seed, 2), max_reg)
      value == U32Mod(Rand(seed, 3), 1000) - 500
  IN  CASE inst_type = 0 ->
             [inst |-> CREATE_ABx("LOADI", reg, value + OFFSET_sBx),
              seed |-> Rand(seed, 3)]
        [] inst_type = 1 ->
             [inst |-> CREATE_ABCk("ADDI", reg, reg, int2sC(CRem(value, 100)), 0),
              seed |-> Rand(seed, 3)]
        [] inst_type = 2 ->
             [inst |-> CREATE_ABCk("MOVE", reg, U32Mod(Rand(seed, 4), max_reg), 0, 0),
              seed |-> Rand(seed, 4)]
        [] OTHER ->
             [inst |-> CREATE_ABx("LOADI", reg,
                                  U32Mod(Rand(seed, 4), 2000) + OFFSET_sBx),
              seed |-> Rand(seed, 4)]

\* the always-true predicate whose x + 0 variant adds 1
alwaysTrueBody_addsOne(reg1, reg2, variant, random_val) ==
  <<CREATE_ABx("LOADI", reg1, random_val + OFFSET_sBx)>> \o
  (CASE variant = 0 ->
          <<CREATE_ABCk("MUL", reg2, reg1, reg1, 0),
            CREATE_ABCk("GEI", reg2, int2sC(0), 0, 0)>>
     [] variant = 1 ->
          <<CREATE_ABCk("ADDI", reg2, reg1, int2sC(1), 0),
            CREATE_ABCk("EQ", reg2, reg1, 0, 0)>>
     [] variant = 2 ->
          <<CREATE_ABCk("SHLI", reg2, reg1, int2sC(1), 0),
            CREATE_ABCk("SUB", reg2, reg2, reg1, 0),
            CREATE_ABCk("EQ", reg2, reg1, 0, 0)>>
     [] OTHER ->
          <<CREATE_ABCk("SUB", reg2, reg1, reg1, 0),
            CREATE_ABCk("EQI", reg2, int2sC(0), 0, 0)>>)

\* the instructions of one always-true predicate
alwaysTrueBody(reg1, reg2, variant, random_val) ==
  <<CREATE_ABx("LOADI", reg1, random_val + OFFSET_sBx)>> \o
  (CASE variant = 0 ->
          <<CREATE_ABCk("MUL", reg2, reg1, reg1, 0),
            CREATE_ABCk("GEI", reg2, int2sC(0), 0, 0)>>
     [] variant = 1 ->
          <<CREATE_ABCk("ADDI", reg2, reg1, int2sC(0), 0),
            CREATE_ABCk("EQ", reg2, reg1, 0, 0)>>
     [] variant = 2 ->
          <<CREATE_ABCk("SHLI", reg2, reg1, int2sC(1), 0),
            CREATE_ABCk("SUB", reg2, reg2, reg1, 0),
            CREATE_ABCk("EQ", reg2, reg1, 0, 0)>>
     [] OTHER ->
          <<CREATE_ABCk("SUB", reg2, reg1, reg1, 0),
            CREATE_ABCk("EQI", reg2, int2sC(0), 0, 0)>>)

\* the instructions of one always-false predicate
alwaysFalseBody(reg1, reg2, variant, random_val) ==
  <<CREATE_ABx("LOADI", reg1, random_val + OFFSET_sBx)>> \o
  (CASE variant = 0 ->
          <<CREATE_ABCk("MUL", reg2, reg1, reg1, 0),
            CREATE_ABCk("LTI", reg2, int2sC(0), 0, 0)>>
     [] variant = 1 ->
          <<CREATE_ABCk("SUB", reg2, reg1, reg1, 0),
            CREATE_ABCk("EQI", reg2, int2sC(0), 0, 1)>>
     [] OTHER ->
          <<CREATE_ABCk("ADDI", reg2, reg1, int2sC(1), 0),
            CREATE_ABCk("EQ", reg2, reg1, 0, 0)>>)

emitAlwaysTruePredicate(g) ==
  [g EXCEPT
     !.ctx.new_code =
        @ \o alwaysTrueBody(g.ctx.opaque_reg1, g.ctx.opaque_reg2,
                            U32Mod(Rand(g.seed, 1), NUM_OPAQUE_VARIANTS),
                            U32Mod(Rand(g.seed, 2), 1000) - 500),
     !.seed = Rand(g.seed, 2)]

\* emits the instruction of r and takes over the seed r leaves
emitGenerated(g, r) == [emitInstruction(g, r.inst) EXCEPT !.seed = r.seed]

RECURSIVE emitDeadCode(_, _)
emitDeadCode(g, d) ==
  IF d = 0 \/ ~Ready(g) THEN g
  ELSE emitDeadCode(emitGenerated(g, generateBogusInstruction(g.ctx, g.seed)),
                    d - 1)

\* one always-true predicate, the JMP over the dead code, 3 dead instructions
emitOpaqueGuard(g) ==
  emitDeadCode(emitInstruction(emitAlwaysTruePredicate(g),
                               CREATE_sJ("JMP", 3 + OFFSET_sJ, 0)), 3)

\* EQI state_reg, state, k=1 ; JMP <placeholder>, its pc recorded in
\* all_block_jmp_pcs
emitLadderEntry(g, state) ==
  [emitInstruction(
     emitInstruction(g, CREATE_ABCk("EQI", g.ctx.state_reg, int2sC(state), 0, 1)),
     CREATE_sJ("JMP", 0, 0))
   EXCEPT !.all_block_jmp_pcs = Append(@, Len(g.ctx.new_code) + 1)]

\* ladder entries of the real blocks i..n-1; an opaque guard precedes the
\* entry when three entries were emitted since the last one
RECURSIVE emitRealLadder(_, _, _)
emitRealLadder(g, i, opaque_counter) ==
  IF i >= Len(g.ctx.blocks) \/ ~Ready(g) THEN g
  ELSE IF HasFlag(g.ctx, "OPAQUE_PREDICATES") /\ opaque_counter >= 3
  THEN emitRealLadder(emitOpaqueGuard(g), i, 0)
  ELSE emitRealLadder(
         emitLadderEntry(g, encodedState(g.ctx, At(g.ctx.blocks, i).state_id)),
         i + 1, opaque_counter + 1)

\* the synthetic ladder with its loop stopping one entry early
RECURSIVE emitBogusLadder_oneShort(_, _)
emitBogusLadder_oneShort(g, i) ==
  IF i + 1 >= g.num_bogus_blocks \/ ~Ready(g) THEN g
  ELSE emitBogusLadder_oneShort(
         emitLadderEntry(g, encodedState(g.ctx, Len(g.ctx.blocks) + i)), i + 1)

\* ladder entries of the synthetic states num_blocks + i
RECURSIVE emitBogusLadder(_, _)
emitBogusLadder(g, i) ==
  IF i >= g.num_bogus_blocks \/ ~Ready(g) THEN g
  ELSE emitBogusLadder(
         emitLadderEntry(g, encodedState(g.ctx, Len(g.ctx.blocks) + i)), i + 1)

fakeFuncGuardValue(ctx, func_id) ==
  IF HasFlag(ctx, "STATE_ENCODE")
  THEN luaO_encodeState(func_id + 100, U32Xor(ctx.seed, <<43981, 61184>>))
  ELSE func_id + 100

\* guard of fake function func_id: EQI func_id_reg, id ; JMP <placeholder>,
\* its pc recorded in fake_func_jmp_pcs
emitFakeFunction(g, func_id) ==
  [emitInstruction(
     emitInstruction(g, CREATE_ABCk("EQI", g.ctx.func_id_reg,
                                    int2sC(fakeFuncGuardValue(g.ctx, func_id)), 0, 1)),
     CREATE_sJ("JMP", 0, 0))
   EXCEPT !.fake_func_jmp_pcs = Append(@, Len(g.ctx.new_code) + 1)]

RECURSIVE emitFakeGuards(_, _)
emitFakeGuards(g, f) ==
  IF f >= NUM_FAKE_FUNCTIONS \/ ~Ready(g) THEN g
  ELSE emitFakeGuards(emitFakeFunction(g, f), f + 1)

\* one instruction of a fake-function block (i is the index inside the block)
fakeBlockInst(ctx, func_type, block_idx, i, s) ==
  LET reg_base == ctx.opaque_reg1
      val == U32Mod(s, 200) - 100
  IN  CASE func_type = 0 ->
             (CASE i % 4 = 0 -> CREATE_ABx("LOADI", reg_base, val + OFFSET_sBx)
                [] i % 4 = 1 -> CREATE_ABCk("ADDI", reg_base + 1, reg_base,
                                            int2sC(CRem(val, 50)), 0)
                [] i % 4 = 2 -> CREATE_ABCk("MUL", reg_base, reg_base,
                                            reg_base + 1, 0)
                [] OTHER -> CREATE_ABCk("MMBIN", reg_base, reg_base + 1, 14, 0))
        [] func_type = 1 ->
             (CASE i % 3 = 0 -> CREATE_ABCk("MOVE", reg_base + (i % 2),
                                            reg_base, 0, 0)
                [] i % 3 = 1 -> CREATE_ABCk("LEN", reg_base, reg_base + 1, 0, 0)
                [] OTHER -> CREATE_ABx("LOADI", reg_base,
                                       U32Mod(s, 100) + OFFSET_sBx))
        [] func_type = 2 ->
             (CASE i % 3 = 0 -> CREATE_ABx("LOADI", reg_base,
                                           U32Mod(s, 50) + OFFSET_sBx)
                [] i % 3 = 1 -> CREATE_ABCk("MOVE", reg_base + 1, reg_base, 0, 0)
                [] OTHER -> CREATE_ABCk("ADD", reg_base, reg_base,
                                        reg_base + 1, 0))
        [] OTHER ->
             (CASE i % 4 = 0 -> CREATE_ABx("LOADI", reg_base,
                                           block_idx + OFFSET_sBx)
                [] i % 4 = 1 -> CREATE_ABCk("ADDI", reg_base, reg_base,
                                            int2sC(1), 0)
                [] i % 4 = 2 -> CREATE_ABCk("MMBIN", reg_base, reg_base, 6, 0)
                [] OTHER -> CREATE_ABCk("MOVE", reg_base + 1, reg_base, 0, 0))


RECURSIVE emitFakeFunctionBlock(_, _, _, _)
emitFakeFunctionBlock(g, func_type, block_idx, i) ==
  IF i >= FAKE_BLOCK_INSTS \/ ~Ready(g) THEN g
  ELSE emitFakeFunctionBlock(
         emitGenerated(g, [inst |-> fakeBlockInst(g.ctx, func_type, block_idx, i,
                                                  NEXT_RAND(g.seed)),
                           seed |-> NEXT_RAND(g.seed)]),
         func_type, block_idx, i + 1)

\* the transition that ends block b of a fake function: to the next block
\* of the function, or from the last block to a random real state
emitFakeTransition(g, func_id, b) ==
  IF b < FAKE_FUNC_BLOCKS - 1
  THEN [emitStateJump(g, encodedState(g.ctx, (func_id + 100) * 10 + b + 1))
          EXCEPT !.seed = Rand(g.seed, 1)]
  ELSE [emitStateJump(g, encodedState(g.ctx, U32Mod(Rand(g.seed, 2),
                                                    Len(g.ctx.blocks))))
          EXCEPT !.seed = Rand(g.seed, 2)]

\* blocks b..FAKE_FUNC_BLOCKS-1 of one fake function
RECURSIVE emitFakeBlocksFrom(_, _, _)
emitFakeBlocksFrom(g, func_id, b) ==
  IF b >= FAKE_FUNC_BLOCKS \/ ~Ready(g) THEN g
  ELSE emitFakeBlocksFrom(
         emitFakeTransition(emitFakeFunctionBlock(g, func_id % 4, b, 0), func_id, b),
         func_id, b + 1)

\* patches the guard's placeholder jump, then emits the island
emitFakeFunctionBlocks(g, func_id, entry_jmp_pc) ==
  emitFakeBlocksFrom(
    [g EXCEPT !.ctx.new_code[entry_jmp_pc + 1] =
                 SETARG_sJ(@, Len(g.ctx.new_code) - entry_jmp_pc - 1)],
    func_id, 0)

RECURSIVE emitAllFakeFunctionBlocks(_, _)
emitAllFakeFunctionBlocks(g, f) ==
  IF f >= NUM_FAKE_FUNCTIONS \/ ~Ready(g) THEN g
  ELSE emitAllFakeFunctionBlocks(
         emitFakeFunctionBlocks(g, f, At(g.fake_func_jmp_pcs, f)), f + 1)

\* the epilogue with the two state loads exchanged
emitCondEpilogue_swapped(g, test_inst, then_state, else_state) ==
  emitStateJump(
    emitStateJump(
      emitInstruction(emitInstruction(g, test_inst),
                      CREATE_sJ("JMP", 2 + OFFSET_sJ, 0)),
      else_state),
    then_state)

\* epilogue of a block that ends in a conditional test and its jump: the
\* test again, a jump over the then-transition, the then-transition, the
\* else-transition
emitCondEpilogue(g, test_inst, then_state, else_state) ==
  emitStateJump(
    emitStateJump(
      emitInstruction(emitInstruction(g, test_inst),
                      CREATE_sJ("JMP", 2 + OFFSET_sJ, 0)),
      then_state),
    else_state)

\* the state of block b moved past the real states
stateOrZero_synthetic(ctx, b) ==
  IF b >= 0 THEN At(ctx.blocks, b).state_id + Len(ctx.blocks) ELSE 0

\* state of block b, 0 when there is none
stateOrZero(ctx, b) == IF b >= 0 THEN At(ctx.blocks, b).state_id ELSE 0

\* the block that follows the jump paired with the test at the end of block
thenBlock(ctx, block) ==
  IF findBlockStartingAt(ctx.blocks, block.end_pc) < 0 THEN block.fall_through
  ELSE findBlockStartingAt(ctx.blocks, block.end_pc)

\* the continuation state moved past the real states
nextState_synthetic(ctx, block) ==
  IF block.original_target >= 0
  THEN At(ctx.blocks, block.original_target).state_id + Len(ctx.blocks)
  ELSE IF block.fall_through >= 0
  THEN At(ctx.blocks, block.fall_through).state_id + Len(ctx.blocks)
  ELSE -1

\* the state a block without a conditional test continues with, -1 if none
nextState(ctx, block) ==
  IF block.original_target >= 0
  THEN At(ctx.blocks, block.original_target).state_id
  ELSE IF block.fall_through >= 0
  THEN At(ctx.blocks, block.fall_through).state_id
  ELSE -1

\* the epilogue of a block whose body is already copied
emitEpilogue(g, code, block, has_cond_test, copy_end) ==
  IF block.is_exit
  THEN [g EXCEPT !.ctx.new_code = @ \o SubSeq(code, copy_end + 1, block.end_pc)]
  ELSE IF has_cond_test
  THEN emitCondEpilogue(g, At(code, block.end_pc - 2),
         encodedState(g.ctx, stateOrZero(g.ctx, thenBlock(g.ctx, block))),
         encodedState(g.ctx,
           stateOrZero(g.ctx,
             findBlockStartingAt(g.ctx.blocks,
               luaO_getJumpTarget(At(code, block.end_pc - 1), block.end_pc - 1)))))
  ELSE IF nextState(g.ctx, block) >= 0
  THEN emitStateJump(g, encodedState(g.ctx, nextState(g.ctx, block)))
  ELSE g

\* relocated body and state-transition epilogue of real block i; the start
\* of the relocated block is recorded in all_block_starts
emitRealBlock(g, code, i) ==
  LET block   == At(g.ctx.blocks, i)
      last_pc == block.end_pc - 1
      last_op == GET_OPCODE(At(code, last_pc))
      has_cond_test ==
        /\ last_op = "JMP"
        /\ last_pc > block.start_pc
        /\ isConditionalTest(GET_OPCODE(At(code, last_pc - 1)))
      cond_test_pc == last_pc - 1
      copy_end == IF has_cond_test THEN cond_test_pc
                  ELSE IF last_op = "JMP" THEN block.end_pc - 1
                  ELSE block.end_pc
  IN  emitEpilogue(
        [g EXCEPT !.all_block_starts = Append(@, Len(g.ctx.new_code)),
                  !.ctx.new_code = @ \o SubSeq(code, block.start_pc + 1, copy_end)],
        code, block, has_cond_test, copy_end)

RECURSIVE emitRealBlocks(_, _, _)
emitRealBlocks(g, code, i) ==
  IF i >= Len(g.ctx.blocks) \/ ~Ready(g) THEN g
  ELSE emitRealBlocks(emitRealBlock(g, code, i), code, i + 1)

\* the backpatch pass: it walks the real blocks only
RECURSIVE patchJumps(_, _)
patchJumps(g, i) ==
  IF i >= Len(g.ctx.blocks) \/ ~Ready(g) THEN g
  ELSE patchJumps(
         [g EXCEPT !.ctx.new_code[At(g.all_block_jmp_pcs, i) + 1] =
                      SETARG_sJ(@, At(g.all_block_starts, i)
                                   - At(g.all_block_jmp_pcs, i) - 1)],
         i + 1)

entryState(blocks) ==
  IF \E i \in 0..(Len(blocks) - 1) : At(blocks, i).is_entry
  THEN At(blocks, CHOOSE i \in 0..(Len(blocks) - 1) :
                    /\ At(blocks, i).is_entry
                    /\ \A j \in 0..(i - 1) : ~At(blocks, j).is_entry).state_id
  ELSE 0

\* the start of luaO_generateDispatcher: the count of synthetic states, the
\* load of the entry state, the load of the function id, the dispatcher pc
dispatcherEntry(ctx0) ==
  LET il == HasFlag(ctx0, "FUNC_INTERLEAVE")
      c0 == <<CREATE_ABx("LOADI", ctx0.state_reg,
                         encodedState(ctx0, entryState(ctx0.blocks)) + OFFSET_sBx)>>
      c1 == IF il
            THEN Append(c0, CREATE_ABx("LOADI", ctx0.func_id_reg, 0 + OFFSET_sBx))
            ELSE c0
  IN  [ctx |-> [ctx0 EXCEPT !.new_code = c1,
                            !.dispatcher_pc = Len(c1),
                            !.num_fake_funcs = IF il THEN NUM_FAKE_FUNCTIONS ELSE @],
       seed |-> ctx0.seed,
       all_block_jmp_pcs |-> <<>>,
       all_block_starts |-> <<>>,
       fake_func_jmp_pcs |-> <<>>,
       group_jmp_pcs |-> <<>>,
       inner_dispatcher_pcs |-> <<>>,
       num_bogus_blocks |-> IF HasFlag(ctx0, "BOGUS_BLOCKS")
                            THEN Len(ctx0.blocks) * BOGUS_BLOCK_RATIO ELSE 0,
       dispatcher_end |-> 0]

\* the comparison ladder: real states, then synthetic states
dispatcherLadder(g) ==
  emitBogusLadder(
    emitRealLadder([g EXCEPT !.seed = U32Xor(g.ctx.seed, <<57005, 48879>>)], 0, 0),
    0)

\* the guards of the fake functions
dispatcherFakeGuards(g) ==
  IF HasFlag(g.ctx, "FUNC_INTERLEAVE") THEN emitFakeGuards(g, 0) ELSE g

\* the jump back to the head of the dispatcher
dispatcherLoop(g) ==
  [emitInstruction(g, CREATE_sJ("JMP",
                     g.ctx.dispatcher_pc - Len(g.ctx.new_code) - 1 + OFFSET_sJ, 0))
   EXCEPT !.dispatcher_end = Len(g.ctx.new_code)]

\* the islands of the fake functions
dispatcherFakeBlocks(g) ==
  IF HasFlag(g.ctx, "FUNC_INTERLEAVE")
  THEN emitAllFakeFunctionBlocks(
         [g EXCEPT !.seed = U32Xor(g.ctx.seed, <<65261, 64206>>)], 0)
  ELSE g

\* luaO_generateDispatcher with every allocation succeeding.  The result
\* keeps the bookkeeping arrays of the call next to the context.
luaO_generateDispatcher(ctx0, code) ==
  dispatcherFakeBlocks(
    patchJumps(
      emitRealBlocks(
        dispatcherLoop(dispatcherFakeGuards(dispatcherLadder(dispatcherEntry(ctx0)))),
        code, 0),
      0))

\* ------------------------------------------------------------------------
\* the nested dispatcher.  Its generator record carries, besides the fields
\* of the flat one, the pcs of the outer ladder's placeholder jumps.
\* ------------------------------------------------------------------------
NESTED_GROUP_SIZE == 4

\* 0x12345678, the mask of the seed of the inner states
INNER_SEED_MASK == <<4660, 22136>>

\* the grouping with every group of NESTED_GROUP_SIZE blocks
partitionBlocksIntoGroups_fixedSize(ctx) ==
  LET n   == Len(ctx.blocks)
      ng  == Max((n + NESTED_GROUP_SIZE - 1) \div NESTED_GROUP_SIZE, 2)
  IN  [ctx EXCEPT
         !.num_groups = ng,
         !.group_starts = [k \in 1..(ng + 1) |->
                             IF k = ng + 1 \/ (k - 1) * NESTED_GROUP_SIZE > n THEN n
                             ELSE (k - 1) * NESTED_GROUP_SIZE]]

partitionBlocksIntoGroups(ctx) ==
  LET n   == Len(ctx.blocks)
      ng  == Max((n + NESTED_GROUP_SIZE - 1) \div NESTED_GROUP_SIZE, 2)
      bpg == (n + ng - 1) \div ng
  IN  [ctx EXCEPT
         !.num_groups = ng,
         !.group_starts = [k \in 1..(ng + 1) |->
                             IF k = ng + 1 \/ (k - 1) * bpg > n THEN n
                             ELSE (k - 1) * bpg]]

\* the first group whose range holds block_idx, group 0 when there is none
findBlockGroup(ctx, block_idx) ==
  IF \E k \in 0..(ctx.num_groups - 1) :
       block_idx >= At(ctx.group_starts, k) /\ block_idx < At(ctx.group_starts, k + 1)
  THEN CHOOSE k \in 0..(ctx.num_groups - 1) :
         /\ block_idx >= At(ctx.group_starts, k)
         /\ block_idx < At(ctx.group_starts, k + 1)
         /\ \A j \in 0..(k - 1) :
              ~(block_idx >= At(ctx.group_starts, j)
                /\ block_idx < At(ctx.group_starts, j + 1))
  ELSE 0

outerState(ctx, grp) ==
  IF HasFlag(ctx, "STATE_ENCODE") THEN luaO_encodeState(grp, ctx.seed) ELSE grp

innerState(ctx, state) ==
  IF HasFlag(ctx, "STATE_ENCODE")
  THEN luaO_encodeState(state, U32Xor(ctx.seed, INNER_SEED_MASK))
  ELSE state

\* group of block b and state of block b, both 0 when there is no block
groupOrZero(ctx, b) == IF b >= 0 THEN findBlockGroup(ctx, b) ELSE 0

\* LOADI outer_state_reg, outer ; LOADI state_reg, inner ; JMP outer dispatcher
emitNestedStateJump(g, outer, inner) ==
  emitInstruction(
    emitInstruction(
      emitInstruction(g, CREATE_ABx("LOADI", g.ctx.outer_state_reg, outer + OFFSET_sBx)),
      CREATE_ABx("LOADI", g.ctx.state_reg, inner + OFFSET_sBx)),
    CREATE_sJ("JMP", g.ctx.outer_dispatcher_pc - (Len(g.ctx.new_code) + 2) - 1
                     + OFFSET_sJ, 0))

\* the transition to block b
emitNestedTransition(g, b) ==
  emitNestedStateJump(g, outerState(g.ctx, groupOrZero(g.ctx, b)),
                      innerState(g.ctx, stateOrZero(g.ctx, b)))

entryBlock(blocks) ==
  IF \E i \in 0..(Len(blocks) - 1) : At(blocks, i).is_entry
  THEN CHOOSE i \in 0..(Len(blocks) - 1) :
         /\ At(blocks, i).is_entry
         /\ \A j \in 0..(i - 1) : ~At(blocks, j).is_entry
  ELSE 0

\* the start of luaO_generateNestedDispatcher: the groups, the loads of the
\* two entry states, the pc of the outer dispatcher
nestedEntry(ctx0) ==
  [ctx |-> [partitionBlocksIntoGroups(ctx0) EXCEPT
              !.new_code =
                 <<CREATE_ABx("LOADI", ctx0.outer_state_reg,
                     outerState(ctx0,
                       findBlockGroup(partitionBlocksIntoGroups(ctx0),
                                      entryBlock(ctx0.blocks))) + OFFSET_sBx),
                   CREATE_ABx("LOADI", ctx0.state_reg,
                     innerState(ctx0, At(ctx0.blocks, entryBlock(ctx0.blocks)).state_id)
                     + OFFSET_sBx)>>,
              !.outer_dispatcher_pc = 2],
   seed |-> ctx0.seed,
   all_block_jmp_pcs |-> <<>>,
   all_block_starts |-> <<>>,
   fake_func_jmp_pcs |-> <<>>,
   group_jmp_pcs |-> <<>>,
   inner_dispatcher_pcs |-> <<>>,
   num_bogus_blocks |-> 0,
   dispatcher_end |-> 0]

\* EQI outer_state_reg, group, k=1 ; JMP <placeholder>, for groups grp..
RECURSIVE emitOuterLadder(_, _)
emitOuterLadder(g, grp) ==
  IF grp >= g.ctx.num_groups \/ ~Ready(g) THEN g
  ELSE emitOuterLadder(
         [emitInstruction(
            emitInstruction(g, CREATE_ABCk("EQI", g.ctx.outer_state_reg,
                                           int2sC(outerState(g.ctx, grp)), 0, 1)),
            CREATE_sJ("JMP", 0, 0))
          EXCEPT !.group_jmp_pcs = Append(@, Len(g.ctx.new_code) + 1)],
         grp + 1)

\* a jump back to the head of the outer dispatcher
emitOuterJump(g) ==
  emitInstruction(g, CREATE_sJ("JMP",
                     g.ctx.outer_dispatcher_pc - Len(g.ctx.new_code) - 1 + OFFSET_sJ, 0))

\* the default jump of the outer dispatcher
nestedOuterLoop(g) == [emitOuterJump(g) EXCEPT !.dispatcher_end = Len(g.ctx.new_code)]

\* the ladder entries of blocks i..group_end-1 of one inner dispatcher
RECURSIVE emitInnerLadder(_, _, _)
emitInnerLadder(g, i, group_end) ==
  IF i >= group_end \/ ~Ready(g) THEN g
  ELSE emitInnerLadder(
         emitLadderEntry(g, innerState(g.ctx, At(g.ctx.blocks, i).state_id)),
         i + 1, group_end)

\* inner dispatcher of group grp: the outer placeholder is patched, then the
\* ladder of the group, then the default jump to the outer dispatcher
emitInnerDispatcher(g, grp) ==
  emitOuterJump(
    emitInnerLadder(
      [g EXCEPT !.inner_dispatcher_pcs = Append(@, Len(g.ctx.new_code)),
                !.ctx.new_code[At(g.group_jmp_pcs, grp) + 1] =
                   SETARG_sJ(@, Len(g.ctx.new_code) - At(g.group_jmp_pcs, grp) - 1)],
      At(g.ctx.group_starts, grp), At(g.ctx.group_starts, grp + 1)))

RECURSIVE emitInnerDispatchers(_, _)
emitInnerDispatchers(g, grp) ==
  IF grp >= g.ctx.num_groups \/ ~Ready(g) THEN g
  ELSE emitInnerDispatchers(emitInnerDispatcher(g, grp), grp + 1)

\* epilogue of a block ending in a test and its jump: the test, a jump over
\* the three instructions of the then-transition, the two transitions
emitNestedCondEpilogue(g, test_inst, then_block, else_block) ==
  emitNestedTransition(
    emitNestedTransition(
      emitInstruction(emitInstruction(g, test_inst),
                      CREATE_sJ("JMP", 3 + OFFSET_sJ, 0)),
      then_block),
    else_block)

\* the block a block without a conditional test continues with, -1 if none
nextBlock(block) ==
  IF block.original_target >= 0 THEN block.original_target ELSE block.fall_through

emitNestedEpilogue(g, code, block, has_cond_test, copy_end) ==
  IF block.is_exit
  THEN [g EXCEPT !.ctx.new_code = @ \o SubSeq(code, copy_end + 1, block.end_pc)]
  ELSE IF has_cond_test
  THEN emitNestedCondEpilogue(g, At(code, block.end_pc - 2),
         thenBlock(g.ctx, block),
         findBlockStartingAt(g.ctx.blocks,
           luaO_getJumpTarget(At(code, block.end_pc - 1), block.end_pc - 1)))
  ELSE IF nextBlock(block) >= 0
  THEN emitNestedTransition(g, nextBlock(block))
  ELSE g

\* relocated body and epilogue of block i; the placeholder of its ladder
\* entry is patched as soon as the start of the block is known
emitNestedBlock(g, code, i) ==
  LET block   == At(g.ctx.blocks, i)
      last_pc == block.end_pc - 1
      last_op == GET_OPCODE(At(code, last_pc))
      has_cond_test ==
        /\ last_op = "JMP"
        /\ last_pc > block.start_pc
        /\ isConditionalTest(GET_OPCODE(At(code, last_pc - 1)))
      copy_end == IF has_cond_test THEN last_pc - 1
                  ELSE IF last_op = "JMP" THEN block.end_pc - 1
                  ELSE block.end_pc
  IN  emitNestedEpilogue(
        [g EXCEPT !.all_block_starts = Append(@, Len(g.ctx.new_code)),
                  !.ctx.new_code =
                     [@ EXCEPT ![At(g.all_block_jmp_pcs, i) + 1] =
                        SETARG_sJ(@, Len(g.ctx.new_code)
                                     - At(g.all_block_jmp_pcs, i) - 1)]
                     \o SubSeq(code, block.start_pc + 1, copy_end)],
        code, block, has_cond_test, copy_end)

RECURSIVE emitNestedBlocks(_, _, _)
emitNestedBlocks(g, code, i) ==
  IF i >= Len(g.ctx.blocks) \/ ~Ready(g) THEN g
  ELSE emitNestedBlocks(emitNestedBlock(g, code, i), code, i + 1)

\* luaO_generateNestedDispatcher with every allocation succeeding
luaO_generateNestedDispatcher(ctx0, code) ==
  emitNestedBlocks(
    emitInnerDispatchers(nestedOuterLoop(emitOuterLadder(nestedEntry(ctx0), 0)), 0),
    code, 0)

\* ------------------------------------------------------------------------
\* luaO_flatten helpers
\* ------------------------------------------------------------------------
CFF_MAGIC == 1128678912
CFF_VERSION == 1

NullCtx == [alive |-> FALSE]

initContext(f, flags, seed) ==
  [alive |-> TRUE,
   blocks |-> <<>>,
   new_code |-> <<>>,
   state_reg |-> f.maxstacksize,
   outer_state_reg |-> f.maxstacksize + 1,
   opaque_reg1 |-> f.maxstacksize + 2,
   opaque_reg2 |-> f.maxstacksize + 3,
   func_id_reg |-> f.maxstacksize + 4,
   dispatcher_pc |-> 0,
   outer_dispatcher_pc |-> 0,
   num_groups |-> 0,
   group_starts |-> <<>>,
   num_fake_funcs |-> 0,
   seed |-> seed,
   obfuscate_flags |-> flags]

\* the scan for loop opcodes starting at the second instruction
hasLoopOpcode_fromSecond(code) ==
  \E pc \in 1..(Len(code) - 1) : isLoopOpcode(GET_OPCODE(At(code, pc)))

hasLoopOpcode(code) ==
  \E pc \in 0..(Len(code) - 1) : isLoopOpcode(GET_OPCODE(At(code, pc)))

\* the update without the branch of the function-id register
newMaxStack_noFuncId(ctx, flags, maxstacksize) ==
  LET m0 == ctx.state_reg
      m1 == IF "NESTED_DISPATCHER" \in flags /\ ctx.outer_state_reg > m0
            THEN ctx.outer_state_reg ELSE m0
      m2 == IF "OPAQUE_PREDICATES" \in flags /\ ctx.opaque_reg2 > m1
            THEN ctx.opaque_reg2 ELSE m1
  IN  IF m2 >= maxstacksize THEN m2 + 1 ELSE maxstacksize

\* register count after the update of luaO_flatten
newMaxStack(ctx, flags, maxstacksize) ==
  LET m0 == ctx.state_reg
      m1 == IF "NESTED_DISPATCHER" \in flags /\ ctx.outer_state_reg > m0
            THEN ctx.outer_state_reg ELSE m0
      m2 == IF "OPAQUE_PREDICATES" \in flags /\ ctx.opaque_reg2 > m1
            THEN ctx.opaque_reg2 ELSE m1
      m3 == IF "FUNC_INTERLEAVE" \in flags /\ ctx.func_id_reg > m2
            THEN ctx.func_id_reg ELSE m2
  IN  IF m3 >= maxstacksize THEN m3 + 1 ELSE maxstacksize

\* the part of luaO_flatten that installs the generated code in the Proto
installCode(f, ctx, flags) ==
  [code |-> ctx.new_code,
   maxstacksize |-> newMaxStack(ctx, flags, f.maxstacksize),
   difierline_mode |-> f.difierline_mode \cup {"CFF"}
                       \cup (flags \cap {"NESTED_DISPATCHER", "OPAQUE_PREDICATES",
                                         "FUNC_INTERLEAVE"}),
   difierline_magicnum |-> CFF_MAGIC,
   difierline_data |-> [hi |-> Len(ctx.blocks), lo |-> ctx.seed]]

\* ------------------------------------------------------------------------
\* VM protection.  A VM instruction is a 64-bit word, kept as its eight
\* bytes from the least significant one; an encrypted one carries the key
\* and the pc it was encrypted with.
\* ------------------------------------------------------------------------
VM_OP_NOP == 0
VM_OP_HALT == 46
VM_OP_COUNT == 47

\* the opcodes in the order of their numbers
OpNames ==
  <<"MOVE", "LOADI", "LOADF", "LOADK", "LOADKX", "LOADFALSE",
    "LFALSESKIP", "LOADTRUE", "LOADNIL", "GETUPVAL", "SETUPVAL",
    "GETTABUP", "GETTABLE", "GETI", "GETFIELD", "SETTABUP", "SETTABLE",
    "SETI", "SETFIELD", "NEWTABLE", "SELF", "ADDI", "ADDK", "SUBK",
    "MULK", "MODK", "POWK", "DIVK", "IDIVK", "BANDK", "BORK", "BXORK",
    "SHLI", "SHRI", "ADD", "SUB", "MUL", "MOD", "POW", "DIV", "IDIV",
    "BAND", "BOR", "BXOR", "SHL", "SHR", "SPACESHIP", "MMBIN", "MMBINI",
    "MMBINK", "UNM", "BNOT", "NOT", "LEN", "CONCAT", "CLOSE", "TBC",
    "JMP", "EQ", "LT", "LE", "EQK", "EQI", "LTI", "LEI", "GTI", "GEI",
    "TEST", "TESTSET", "CALL", "TAILCALL", "RETURN", "RETURN0",
    "RETURN1", "FORLOOP", "FORPREP", "TFORPREP", "TFORCALL", "TFORLOOP",
    "SETLIST", "CLOSURE", "VARARG", "GETVARG", "ERRNNIL", "VARARGPREP",
    "IS", "TESTNIL", "NEWCLASS", "INHERIT", "GETSUPER", "SETMETHOD",
    "SETSTATIC", "NEWOBJ", "GETPROP", "SETPROP", "INSTANCEOF",
    "IMPLEMENT", "SETIFACEFLAG", "ADDMETHOD", "SLICE", "NOP", "EXTRAARG">>

NUM_OPCODES == Len(OpNames)

opcodeNumber(op) == CHOOSE i \in 0..(NUM_OPCODES - 1) : OpNames[i + 1] = op

\* 0xDEADBEEF, the mask of the seed of the opcode map
OPCODE_SEED_MASK == <<57005, 48879>>

\* opcode_map[i .. NUM_OPCODES-1] appended to acc; r is the generator state
RECURSIVE opcodeMapFrom(_, _, _)
opcodeMapFrom(r, i, acc) ==
  IF i >= NUM_OPCODES \/ r[1] < 0 \/ Len(acc) < 0 THEN acc
  ELSE opcodeMapFrom(NEXT_RAND(r), i + 1,
                     Append(acc, U32Mod(NEXT_RAND(r), VM_OP_COUNT)))

\* the VM opcode -> Lua opcode table: the last Lua opcode mapped to it, or -1
reverseMap(opcode_map) ==
  [v \in 0..(VM_OP_COUNT - 1) |->
     IF \E i \in 0..(NUM_OPCODES - 1) : At(opcode_map, i) = v
     THEN CHOOSE i \in 0..(NUM_OPCODES - 1) :
            /\ At(opcode_map, i) = v
            /\ \A j \in (i + 1)..(NUM_OPCODES - 1) : At(opcode_map, j) # v
     ELSE -1]

\* luaO_initVMContext with every allocation succeeding
luaO_initVMContext(f, seed) ==
  [pc |-> "convert",
   vm_code |-> <<>>,
   seed |-> seed,
   encrypt_key |-> [hi |-> NEXT_RAND(seed), lo |-> NEXT_RAND(NEXT_RAND(seed))],
   opcode_map |-> opcodeMapFrom(U32Xor(seed, OPCODE_SEED_MASK), 0, <<>>)]

\* bitwise or of two bytes
RECURSIVE OrBits(_, _)
OrBits(x, y) ==
  IF x = 0 THEN y
  ELSE IF y = 0 THEN x
  ELSE (IF x % 2 = 1 \/ y % 2 = 1 THEN 1 ELSE 0)
       + 2 * OrBits(x \div 2, y \div 2)

\* byte k of (uint64_t)(x) for an int x: two's complement, sign-extended
u64Byte(x, k) ==
  IF k < 0 THEN 0
  ELSE IF k >= 4 THEN (IF x < 0 THEN 255 ELSE 0)
  ELSE (x \div (256 ^ k)) % 256

\* ((uint64_t)(op) << 56) | ((uint64_t)(a) << 40) | ((uint64_t)(b) << 24)
\*   | ((uint64_t)(c) << 8) | (uint64_t)(flags)
VM_MAKE_INST(op, a, b, c, fl) ==
  [i \in 1..8 |->
     OrBits(OrBits(OrBits(u64Byte(op, i - 8), u64Byte(a, i - 6)),
                   OrBits(u64Byte(b, i - 4), u64Byte(c, i - 2))),
            u64Byte(fl, i - 1))]

VM_GET_OP(word) == word[8]
VM_GET_A(word) == word[6] + 256 * word[7]
VM_GET_B(word) == word[4] + 256 * word[5]
VM_GET_C(word) == word[2] + 256 * word[3]
VM_GET_FLAGS(word) == word[1]

encryptVMInstruction(inst, key, pc) == [cipher |-> inst, key |-> key, pc |-> pc]

\* operand layout of an opcode (getOpMode)
getOpMode(op) ==
  CASE op = "JMP" -> "isJ"
    [] op = "LOADI" -> "iAsBx"
    [] op = "FORLOOP" -> "iABx"
    [] OTHER -> "iABC"

\* the values convertLuaInstToVM hands to VM_MAKE_INST for inst: the mapped
\* opcode (NOP for an opcode the map does not hold) and the operands of
\* the addressing mode
vmOperands(vc, inst) ==
  [op |-> IF At(vc.opcode_map, opcodeNumber(inst.op)) < 0 THEN VM_OP_NOP
          ELSE At(vc.opcode_map, opcodeNumber(inst.op)),
   a |-> IF getOpMode(inst.op) = "isJ" THEN GETARG_sJ(inst) ELSE inst.a,
   b |-> CASE getOpMode(inst.op) = "iABC" -> inst.b
           [] getOpMode(inst.op) = "iABx" -> GETARG_Bx(inst)
           [] getOpMode(inst.op) = "iAsBx" -> GETARG_sBx(inst)
           [] OTHER -> 0,
   c |-> IF getOpMode(inst.op) = "iABC" THEN inst.c ELSE 0,
   flags |-> IF getOpMode(inst.op) = "iABC" THEN inst.k ELSE 0]

packOperands(o) == VM_MAKE_INST(o.op, o.a, o.b, o.c, o.flags)

\* the encrypted VM instruction of the Lua instruction inst at pc
convertLuaInstToVM(vc, inst, pc) ==
  encryptVMInstruction(packOperands(vmOperands(vc, inst)), vc.encrypt_key, pc)

\* luaO_convertToVM with every allocation succeeding: one word for each
\* instruction, then the encrypted HALT
luaO_convertToVM(vc, code) ==
  [vc EXCEPT
     !.pc = "finish",
     !.vm_code =
        [i \in 1..(Len(code) + 1) |->
           IF i <= Len(code) THEN convertLuaInstToVM(vc, code[i], i - 1)
           ELSE encryptVMInstruction(VM_MAKE_INST(VM_OP_HALT, 0, 0, 0, 0),
                                     vc.encrypt_key, Len(code))]]

\* a luaO_vmProtect that stores the encrypted stream as the code
luaO_vmProtect_storesStream(f, seed) ==
  IF Len(f.code) < 4 THEN f
  ELSE [f EXCEPT !.difierline_mode = @ \cup {"VM_PROTECT"},
                 !.difierline_data.lo = NEXT_RAND(NEXT_RAND(seed)),
                 !.code = luaO_convertToVM(luaO_initVMContext(f, seed), f.code).vm_code]

VM_SEED_MASK == <<65244, 47768>>

\* effect of a successful luaO_vmProtect on the Proto: the code is kept, the
\* flag is set and the low word of the data becomes the low word of the key
luaO_vmProtect(f, seed) ==
  IF Len(f.code) < 4 THEN f
  ELSE [f EXCEPT !.difierline_mode = @ \cup {"VM_PROTECT"},
                 !.difierline_data.lo = NEXT_RAND(NEXT_RAND(seed))]

\* the functions of the side table; an entry is named by the number of
\* its allocation, 0 is NULL
ProtoNames == {"f", "g"}

\* a successful luaO_registerVMCode: the entry id is put at the head of the
\* list and in the Proto
luaO_registerVMCode(table, p, id, size) ==
  [nodes |-> <<[proto |-> p, id |-> id, size |-> size]>> \o table.nodes,
   vm_code_table |-> [table.vm_code_table EXCEPT ![p] = id]]

\* a luaO_findVMCode that walks the list from its tail
luaO_findVMCode_oldest(table, p) ==
  IF \E i \in 1..Len(table.nodes) : table.nodes[i].proto = p
  THEN table.nodes[CHOOSE i \in 1..Len(table.nodes) :
                     /\ table.nodes[i].proto = p
                     /\ \A j \in (i + 1)..Len(table.nodes) :
                          table.nodes[j].proto # p].id
  ELSE 0

\* the entry luaO_findVMCode returns for the function p, 0 for NULL: the
\* pointer kept in the Proto, else the first node of the list made for it
luaO_findVMCode(table, p) ==
  IF table.vm_code_table[p] # 0 THEN table.vm_code_table[p]
  ELSE IF \E i \in 1..Len(table.nodes) : table.nodes[i].proto = p
  THEN table.nodes[CHOOSE i \in 1..Len(table.nodes) :
                     /\ table.nodes[i].proto = p
                     /\ \A j \in 1..(i - 1) : table.nodes[j].proto # p].id
  ELSE 0

\* luaO_freeAllVMCode: every node is released, the pointer of the Proto of
\* each node is cleared, the list is emptied
luaO_freeAllVMCode(table) ==
  [nodes |-> <<>>,
   vm_code_table |->
     [q \in ProtoNames |->
        IF \E i \in 1..Len(table.nodes) : table.nodes[i].proto = q THEN 0
        ELSE table.vm_code_table[q]]]

\* ------------------------------------------------------------------------
\* metadata codec.  A buffer is a sequence of 32-bit words; sizes are in
\* bytes as in the C code.
\* ------------------------------------------------------------------------
SizeofInt == 4
SizeofBasicBlock == 8 * SizeofInt
HeaderSize == SizeofInt * 4 + SizeofInt

b2i(b) == IF b THEN 1 ELSE 0

\* the eight int fields of a BasicBlock in declaration order
blockWords(b) ==
  <<b.start_pc, b.end_pc, b.state_id, b.original_target, b.fall_through,
    b.cond_target, b2i(b.is_entry), b2i(b.is_exit)>>

blocksWords(blocks) ==
  [k \in 1..(8 * Len(blocks)) |->
     blockWords(blocks[((k - 1) \div 8) + 1])[((k - 1) % 8) + 1]]

\* the header with the register and the block count exchanged
metadataHeader_swapped(c) ==
  <<CFF_MAGIC, CFF_VERSION, c.state_reg, Len(c.blocks), c.seed>>

\* magic, version, num_blocks, state_reg, seed
metadataHeader(c) ==
  <<CFF_MAGIC, CFF_VERSION, Len(c.blocks), c.state_reg, c.seed>>

\* result: the return value, the buffer and *size after the call
luaO_serializeMetadata(c, buf) ==
  LET needed == HeaderSize + SizeofBasicBlock * Len(c.blocks)
      image  == metadataHeader(c) \o blocksWords(c.blocks)
  IN  IF buf.isNull
      THEN [ret |-> 0, buffer |-> [buf EXCEPT !.size = needed]]
      ELSE IF buf.size < needed
      THEN [ret |-> -1, buffer |-> [buf EXCEPT !.size = needed]]
      ELSE [ret |-> 0,
            buffer |-> [buf EXCEPT
                          !.words = image \o SubSeq(buf.words, Len(image) + 1,
                                                    Len(buf.words)),
                          !.size = needed]]

\* result: the return value and the caller's metadata object after the
\* call; ok is FALSE when the allocation of the block mapping fails
luaO_deserializeMetadata(words, size, m, ok) ==
  IF size < HeaderSize THEN [ret |-> -1, metadata |-> m, oom |-> FALSE]
  ELSE IF words[1] # CFF_MAGIC THEN [ret |-> -1, metadata |-> m, oom |-> FALSE]
  ELSE IF words[2] # CFF_VERSION THEN [ret |-> -1, metadata |-> m, oom |-> FALSE]
  ELSE LET m1 == [m EXCEPT !.num_blocks = words[3],
                           !.state_reg = words[4],
                           !.seed = words[5]]
           n  == m1.num_blocks
       IN  IF n < 0 \/ size < HeaderSize + SizeofBasicBlock * n
           THEN [ret |-> -1, metadata |-> m1, oom |-> FALSE]
           ELSE IF ~ok
           THEN [ret |-> -1, metadata |-> [m1 EXCEPT !.block_mapping = <<>>],
                 oom |-> TRUE]
           ELSE [ret |-> 0, oom |-> FALSE,
                 metadata |->
                   [m1 EXCEPT !.block_mapping =
                                [i \in 1..n |-> words[5 + 8 * (i - 1) + 1]],
                              !.enabled = 1]]

\* ------------------------------------------------------------------------
\* execution of an instruction array (conditional-test rule of the VM:
\* a test whose outcome differs from k skips the next instruction)
\* ------------------------------------------------------------------------
MaxTrace == 4

Undef == -1000000

\* the value an arithmetic instruction of the engine leaves in its target,
\* as the comments at the emission sites state it (SHLI by 1 doubles); an
\* operand that holds no integer gives no integer
arith(op, x, y) ==
  IF x = Undef \/ y = Undef THEN Undef
  ELSE CASE op \in {"ADD", "ADDI"} -> x + y
         [] op = "SUB" -> x - y
         [] op = "MUL" -> x * y
         [] OTHER -> x * (2 ^ y)

\* the outcome of the comparison instruction inst on the registers
compare(inst, regs) ==
  CASE GET_OPCODE(inst) = "EQI" -> regs[inst.a] = sC2int(inst.b)
    [] GET_OPCODE(inst) = "GEI" ->
         regs[inst.a] # Undef /\ regs[inst.a] >= sC2int(inst.b)
    [] GET_OPCODE(inst) = "LTI" ->
         regs[inst.a] # Undef /\ regs[inst.a] < sC2int(inst.b)
    [] OTHER -> regs[inst.a] = regs[inst.b]

\* the registers after the register-writing instruction inst
written(inst, regs) ==
  CASE GET_OPCODE(inst) = "LOADI" -> [regs EXCEPT ![inst.a] = GETARG_sBx(inst)]
    [] GET_OPCODE(inst) = "MOVE" -> [regs EXCEPT ![inst.a] = regs[inst.b]]
    [] GET_OPCODE(inst) \in {"ADDI", "SHLI"} ->
         [regs EXCEPT ![inst.a] = arith(GET_OPCODE(inst), regs[inst.b],
                                        sC2int(inst.c))]
    [] OTHER ->
         [regs EXCEPT ![inst.a] = arith(GET_OPCODE(inst), regs[inst.b],
                                        regs[inst.c])]

\* trace: the calls executed; loads: the LOADI writes executed, as
\* <<register, value>>; path: the pcs executed; seen: the configurations
\* met since the last call
RECURSIVE run(_, _, _, _, _, _, _, _)
run(code, pc, regs, trace, loads, path, seen, skips) ==
  IF pc < 0 \/ pc >= Len(code)
  THEN [status |-> "oob", trace |-> trace, loads |-> loads, path |-> path,
        ret |-> -1]
  ELSE IF Len(trace) >= MaxTrace
  THEN [status |-> "cut", trace |-> trace, loads |-> loads, path |-> path,
        ret |-> -1]
  ELSE IF <<pc, regs>> \in seen
  THEN [status |-> "spin", trace |-> trace, loads |-> loads, path |-> path,
        ret |-> -1]
  ELSE
    LET inst == At(code, pc)
        op   == GET_OPCODE(inst)
        sn   == seen \cup {<<pc, regs>>}
        pt   == Append(path, pc)
    IN  CASE op = "CALL" ->
               run(code, pc + 1, regs, Append(trace, inst.a), loads, pt, {}, skips)
          [] op = "RETURN1" ->
               [status |-> "ret", trace |-> trace, loads |-> loads, path |-> pt,
                ret |-> inst.a]
          [] op = "JMP" ->
               run(code, pc + 1 + GETARG_sJ(inst), regs, trace, loads, pt, sn, skips)
          [] op = "TEST" ->
               run(code, IF inst.a \in skips THEN pc + 2 ELSE pc + 1,
                   regs, trace, loads, pt, sn, skips)
          [] op = "LOADI" ->
               run(code, pc + 1, written(inst, regs),
                   trace, Append(loads, <<inst.a, GETARG_sBx(inst)>>), pt, sn, skips)
          [] op \in {"EQI", "GEI", "LTI", "EQ"} ->
               LET cond == IF compare(inst, regs) THEN 1 ELSE 0
               IN  run(code, IF cond # inst.k THEN pc + 2 ELSE pc + 1,
                       regs, trace, loads, pt, sn, skips)
          [] op \in {"MOVE", "ADDI", "SHLI", "ADD", "SUB", "MUL"} ->
               run(code, pc + 1, written(inst, regs), trace, loads, pt, sn, skips)
          [] OTHER ->
               [status |-> "stuck", trace |-> trace, loads |-> loads,
                path |-> pt, ret |-> -1]

execute(code, nregs, skips) ==
  run(code, 0, [r \in 0..(nregs - 1) |-> Undef], <<>>, <<>>, <<>>, {}, skips)

\* ------------------------------------------------------------------------
\* inputs
\* ------------------------------------------------------------------------
MaxLen   == 4
MaxPart  == 2
MaxTests == 2
NumSeeds == 2
StackSize == 2

RECURSIVE SeedOf(_)
SeedOf(i) == IF i = 0 THEN <<0, 0>> ELSE NEXT_RAND(SeedOf(i - 1))

Seeds == {SeedOf(i) : i \in 0..(NumSeeds - 1)}

AllFlags == {"CFF", "BLOCK_SHUFFLE", "BOGUS_BLOCKS", "STATE_ENCODE",
             "OPAQUE_PREDICATES", "FUNC_INTERLEAVE", "VM_PROTECT"}

\* the flags combined with every program; the opaque predicates and the
\* fake functions are combined with the shaped arrays below only
LightFlags == AllFlags \ {"OPAQUE_PREDICATES", "FUNC_INTERLEAVE"}

\* the flags of the flat dispatcher whose output the interpreter above runs
ExecFlagSets == {{"CFF"} \cup s : s \in SUBSET {"BLOCK_SHUFFLE", "STATE_ENCODE"}}

\* one instruction of an input program: a call (any instruction without a
\* pc-relative effect), a conditional test, a return, a loop opcode, or a
\* jump to offset t.  Register A carries the offset as the identity of the
\* instruction.
ShapeSet(len) ==
  {<<"CALL", 0>>, <<"TEST", 0>>, <<"RETURN1", 0>>, <<"FORLOOP", 0>>}
    \cup {<<"JMP", t>> : t \in 0..(len - 1)}

mkInst(sh, pc) ==
  CASE sh[1] = "JMP" -> CREATE_sJ("JMP", (sh[2] - pc - 1) + OFFSET_sJ, 0)
    [] sh[1] = "FORLOOP" -> CREATE_ABx("FORLOOP", pc, 1)
    [] OTHER -> CREATE_ABCk(sh[1], pc, 0, 0, 0)

\* what the compiler guarantees of a code array: it ends with a return,
\* every conditional test is followed by its jump, and no jump lands between
\* a test and its jump
wellFormed(sh) ==
  /\ sh[Len(sh)][1] = "RETURN1"
  /\ \A i \in 1..Len(sh) :
       sh[i][1] = "TEST" =>
         /\ i < Len(sh)
         /\ sh[i + 1][1] = "JMP"
         /\ \A j \in 1..Len(sh) : sh[j][1] = "JMP" => sh[j][2] # i

ProgramsOfLen(len) ==
  {[i \in 1..len |-> mkInst(sh[i], i - 1)] :
     sh \in {s \in [1..len -> ShapeSet(len)] : wellFormed(s)}}

Programs == UNION {ProgramsOfLen(len) : len \in 1..MaxLen}

\* if c then <t calls> return else <e calls> return end
IfElse(t, e) ==
  [i \in 1..(t + e + 4) |->
     mkInst(IF i = 1 THEN <<"TEST", 0>>
            ELSE IF i = 2 THEN <<"JMP", t + 3>>
            ELSE IF i = t + 3 \/ i = t + e + 4 THEN <<"RETURN1", 0>>
            ELSE <<"CALL", 0>>, i - 1)]

IfElsePrograms == {IfElse(t, e) : t \in 0..MaxPart, e \in 0..MaxPart}

\* if c1 then return end ... if ck then return end return
IfChain(k) ==
  [i \in 1..(3 * k + 1) |->
     mkInst(IF i = 3 * k + 1 THEN <<"RETURN1", 0>>
            ELSE IF i % 3 = 1 THEN <<"TEST", 0>>
            ELSE IF i % 3 = 2 THEN <<"JMP", i + 1>>
            ELSE <<"RETURN1", 0>>, i - 1)]

ShapedPrograms == IfElsePrograms \cup {IfChain(k) : k \in 1..MaxTests}

testPcs(code) == {pc \in 0..(Len(code) - 1) : GET_OPCODE(At(code, pc)) = "TEST"}

mkProto(code) ==
  [code |-> code, maxstacksize |-> StackSize, difierline_mode |-> {},
   difierline_magicnum |-> 0,
   difierline_data |-> [hi |-> 0, lo |-> <<0, 0>>]]

\* ------------------------------------------------------------------------
\* state
\* ------------------------------------------------------------------------
VARIABLES f, f0, flags, seed, ctx, gen, pc, result, oom, skips, origRun,
          flatRun, enc, buffer, metadata, log, prev, plainRun, vmctx,
          vm_code_list, found, pred, heap

vars == <<f, f0, flags, seed, ctx, gen, pc, result, oom, skips, origRun,
          flatRun, enc, buffer, metadata, log, prev, plainRun, vmctx,
          vm_code_list, found, pred, heap>>

\* the opaque predicate under evaluation and the auxiliary arrays of a
\* generator call
aside == <<pred, heap>>

\* the VM-protection context, the side table of VM code and the last answer
\* of luaO_findVMCode
vmvars == <<vmctx, vm_code_list, found, aside>>

\* the variables luaO_flatten never touches
others == <<enc, buffer, metadata, prev, plainRun, vmvars>>

\* the variables the codec and luaO_encodeState never touch
later == <<log, prev, plainRun, vmvars>>

NoGen == [made |-> FALSE]
NoRun == [status |-> "none", trace |-> <<>>, loads |-> <<>>, path |-> <<>>,
          ret |-> -1]
\* no run of the flattening without decoys yet
NoPlain == [run |-> NoRun, all_block_starts |-> <<>>]
NoResult == -2
NoEnc == [pc |-> "idle", state |-> 0, encoded |-> -1]
NoBuffer == [isNull |-> TRUE, words |-> <<>>, size |-> 0, kind |-> "none"]
\* a zeroed CFFMetadata; the NULL block mapping is the empty sequence
NoMetadata == [enabled |-> 0, num_blocks |-> 0, state_reg |-> 0,
               dispatcher_pc |-> 0, block_mapping |-> <<>>,
               original_size |-> 0, seed |-> <<0, 0>>]

\* the log of a call: whether log_path was given, whether the local
\* log_file and the global g_cff_log_file are open files, and the number of
\* steps that wrote to the log
NoLog == [given |-> FALSE, log_file |-> FALSE, g_cff_log_file |-> FALSE,
          lines |-> 0]
NoPrev == [made |-> FALSE]
NoVMCtx == [pc |-> "idle"]
NoFound == [asked |-> FALSE]

NoVMCode == [nodes |-> <<>>, vm_code_table |-> [p \in ProtoNames |-> 0]]

NoPred == [pc |-> "idle"]
NoHeap == [pc |-> "idle"]
IdleVM ==
  /\ vmctx = NoVMCtx /\ vm_code_list = NoVMCode /\ found = NoFound
  /\ pred = NoPred /\ heap = NoHeap

\* fopen at the start of luaO_flatten
openLog(lg, opened) ==
  IF lg.given /\ opened
  THEN [lg EXCEPT !.log_file = TRUE, !.g_cff_log_file = TRUE]
  ELSE lg

\* a call that gives up when the log file cannot be opened
continuesWithoutLog_onlyIfOpen(lg) == ~lg.given \/ lg.log_file

\* luaO_flatten goes on without a log when fopen fails
continuesWithoutLog(lg) == TRUE

\* one step of luaO_flatten writes through CFF_LOG
CFF_LOG(lg) == IF lg.g_cff_log_file THEN [lg EXCEPT !.lines = @ + 1] ELSE lg

\* fclose before every return of luaO_flatten
closeLog(lg) ==
  IF lg.log_file THEN [lg EXCEPT !.log_file = FALSE, !.g_cff_log_file = FALSE]
  ELSE lg

\* the log after a step of luaO_flatten that starts with the log lg
LogStep(lg) ==
  log' = IF pc' = "returned" THEN closeLog(CFF_LOG(lg)) ELSE CFF_LOG(lg)

\* a call of luaO_flatten about to start; inputs is TRUE when the outcome of
\* every conditional test is part of the state
InitCall(P, F, S, inputs) ==
  /\ \E code \in P : f = mkProto(code)
  /\ f0 = f
  /\ flags \in F
  /\ seed \in S
  /\ skips \in IF inputs THEN SUBSET testPcs(f.code) ELSE {{}}
  /\ ctx = NullCtx
  /\ gen = NoGen
  /\ pc = "call"
  /\ result = NoResult
  /\ oom = FALSE
  /\ origRun = NoRun
  /\ flatRun = NoRun
  /\ enc = NoEnc
  /\ buffer = NoBuffer
  /\ metadata = NoMetadata
  /\ prev = NoPrev
  /\ plainRun = NoPlain
  /\ IdleVM

\* a call of luaO_flatten(L, f, flags, seed, NULL) about to start
InitWith(P, F, S, inputs) == InitCall(P, F, S, inputs) /\ log = NoLog

Return(r) ==
  /\ result' = r
  /\ pc' = "returned"
  /\ ctx' = NullCtx

\* luaO_vmProtect called by luaO_flatten: it fails, before it touches the
\* function, when one of its allocations fails
CallVMProtect(ok) ==
  IF ok \/ Len(f.code) < 4
  THEN f' = luaO_vmProtect(f, U32Xor(seed, VM_SEED_MASK)) /\ Return(0) /\ oom' = oom
  ELSE f' = f /\ Return(-1) /\ oom' = TRUE

\* luaO_flatten up to initContext
FlattenEntry ==
  /\ pc = "call"
  /\ \E ok \in BOOLEAN, opened \in BOOLEAN :
       /\ IF ~continuesWithoutLog(openLog(log, opened))
          THEN f' = f /\ Return(-1) /\ oom' = oom
          ELSE IF "CFF" \notin flags
          THEN IF "VM_PROTECT" \in flags
               THEN CallVMProtect(ok)
               ELSE f' = f /\ Return(0) /\ oom' = oom
          ELSE IF Len(f.code) < 4 \/ hasLoopOpcode(f.code)
               THEN f' = f /\ Return(0) /\ oom' = oom
               ELSE IF ok
                    THEN /\ ctx' = initContext(f, flags, seed)
                         /\ pc' = "identify"
                         /\ UNCHANGED <<f, result, oom>>
                    ELSE f' = f /\ Return(-1) /\ oom' = TRUE
       /\ LogStep(openLog(log, opened))
  /\ UNCHANGED <<f0, flags, seed, gen, skips, origRun, flatRun, others>>

\* luaO_identifyBlocks and the block-count check
FlattenIdentify ==
  /\ pc = "identify"
  /\ \E ok \in BOOLEAN :
       IF ~ok THEN Return(-1) /\ oom' = TRUE
       ELSE \E blocks \in {luaO_identifyBlocks(f.code)} :
                /\ oom' = oom
                /\ IF Len(blocks) < 2 THEN Return(0)
                   ELSE /\ ctx' = [ctx EXCEPT !.blocks = blocks]
                        /\ pc' = "shuffle"
                        /\ UNCHANGED result
  /\ UNCHANGED <<f, f0, flags, seed, gen, skips, origRun, flatRun, others>>
  /\ LogStep(log)

\* the context after the shuffle sh
shuffled(c, sh) == [c EXCEPT !.blocks = sh.blocks, !.seed = sh.seed]

FlattenShuffle ==
  /\ pc = "shuffle"
  /\ ctx' = IF "BLOCK_SHUFFLE" \in flags
            THEN shuffled(ctx, luaO_shuffleBlocks(ctx.blocks, ctx.seed))
            ELSE ctx
  /\ pc' = "generate"
  /\ UNCHANGED <<f, f0, flags, seed, gen, result, oom, skips, origRun, flatRun, others>>
  /\ LogStep(log)

\* the generator luaO_flatten calls for the flags of the context
generateCode(c, code) ==
  IF HasFlag(c, "NESTED_DISPATCHER") THEN luaO_generateNestedDispatcher(c, code)
  ELSE luaO_generateDispatcher(c, code)

FlattenGenerate ==
  /\ pc = "generate"
  /\ \E ok \in BOOLEAN :
       IF ~ok THEN Return(-1) /\ oom' = TRUE /\ UNCHANGED gen
       ELSE \E g \in {generateCode(ctx, f.code)} :
                /\ ctx' = g.ctx
                /\ gen' = [made |-> TRUE,
                           blocks |-> g.ctx.blocks,
                           new_code |-> g.ctx.new_code,
                           dispatcher_pc |-> g.ctx.dispatcher_pc,
                           dispatcher_end |-> g.dispatcher_end,
                           state_reg |-> g.ctx.state_reg,
                           seed |-> g.ctx.seed,
                           all_block_jmp_pcs |-> g.all_block_jmp_pcs,
                           all_block_starts |-> g.all_block_starts,
                           fake_func_jmp_pcs |-> g.fake_func_jmp_pcs,
                           num_bogus_blocks |-> g.num_bogus_blocks,
                           outer_dispatcher_pc |-> g.ctx.outer_dispatcher_pc,
                           outer_state_reg |-> g.ctx.outer_state_reg,
                           group_starts |-> g.ctx.group_starts,
                           group_jmp_pcs |-> g.group_jmp_pcs,
                           inner_dispatcher_pcs |-> g.inner_dispatcher_pcs]
                /\ pc' = "install"
                /\ UNCHANGED <<result, oom>>
  /\ UNCHANGED <<f, f0, flags, seed, skips, origRun, flatRun, others>>
  /\ LogStep(log)

\* the generated array replaces the code of the function
FlattenInstall ==
  /\ pc = "install"
  /\ f' = installCode(f, ctx, flags)
  /\ ctx' = NullCtx
  /\ pc' = "vmprotect"
  /\ UNCHANGED <<f0, flags, seed, gen, result, oom, skips, origRun, flatRun, others>>
  /\ LogStep(log)

\* the VM-protection step after flattening
FlattenVMProtect ==
  /\ pc = "vmprotect"
  /\ \E ok \in BOOLEAN :
       IF "VM_PROTECT" \in flags
       THEN CallVMProtect(ok)
       ELSE f' = f /\ Return(0) /\ oom' = oom
  /\ UNCHANGED <<f0, flags, seed, gen, skips, origRun, flatRun, others>>
  /\ LogStep(log)

NextFlatten ==
  \/ FlattenEntry
  \/ FlattenIdentify
  \/ FlattenShuffle
  \/ FlattenGenerate
  \/ FlattenInstall
  \/ FlattenVMProtect

\* the interpreter runs the original array
RunOriginal ==
  /\ pc = "returned"
  /\ origRun = NoRun
  /\ origRun' = execute(f0.code, f0.maxstacksize, skips)
  /\ UNCHANGED <<f, f0, flags, seed, ctx, gen, pc, result, oom, skips, flatRun, log, others>>

\* the interpreter runs the array luaO_flatten left in the function
RunFlattened ==
  /\ pc = "returned"
  /\ flatRun = NoRun
  /\ flatRun' = execute(f.code, f.maxstacksize, skips)
  /\ UNCHANGED <<f, f0, flags, seed, ctx, gen, pc, result, oom, skips, origRun, log, others>>

NextExec ==
  \/ NextFlatten
  \/ RunOriginal
  \/ RunFlattened

\* luaO_flatten on every well-formed array up to MaxLen under the light
\* flags, and on the shaped arrays under every flag combination
Init ==
  \/ InitWith(Programs, SUBSET LightFlags, Seeds, FALSE)
  \/ InitWith(ShapedPrograms, SUBSET AllFlags, Seeds, FALSE)

Spec == Init /\ [][NextFlatten]_vars

\* luaO_flatten with the flat dispatcher, then both arrays are executed on
\* the same input
InitExec ==
  \/ InitWith(Programs, ExecFlagSets, Seeds, TRUE)
  \/ InitWith(ShapedPrograms, ExecFlagSets, Seeds, TRUE)

SpecExec == InitExec /\ [][NextExec]_vars

\* luaO_flatten on the shaped arrays under every combination of the eight
\* flags
EveryFlag == AllFlags \cup {"NESTED_DISPATCHER"}

InitFlags == InitWith(ShapedPrograms, SUBSET EveryFlag, Seeds, FALSE)

SpecFlags == InitFlags /\ [][NextFlatten]_vars

\* ------------------------------------------------------------------------
\* luaO_unflatten called on the function luaO_flatten returned
\* ------------------------------------------------------------------------
\* the Proto and the status after luaO_unflatten(L, p, metadata); given tells
\* whether metadata is not NULL
luaO_unflatten(p, given) ==
  IF "CFF" \notin p.difierline_mode THEN [f |-> p, ret |-> 0]
  ELSE IF ~given
  THEN IF p.difierline_magicnum # CFF_MAGIC THEN [f |-> p, ret |-> -1]
       ELSE [f |-> [p EXCEPT !.difierline_mode = @ \ {"CFF"}], ret |-> 0]
  ELSE [f |-> p, ret |-> 0]

Unflatten ==
  /\ pc = "returned"
  /\ \E given \in BOOLEAN :
       \E r \in {luaO_unflatten(f, given)} :
           /\ f' = r.f
           /\ result' = r.ret
  /\ pc' = "unflattened"
  /\ UNCHANGED <<f0, flags, seed, ctx, gen, oom, skips, origRun, flatRun, log,
                 others>>

NextUnflatten ==
  \/ NextFlatten
  \/ Unflatten

SpecUnflatten == InitFlags /\ [][NextUnflatten]_vars

\* ------------------------------------------------------------------------
\* luaO_flatten called a second time, on a function equal to the one of the
\* first call, with the same flags and seed, with or without a log path
\* ------------------------------------------------------------------------
CallAgain ==
  /\ pc = "returned"
  /\ ~prev.made
  /\ ~oom
  /\ prev' = [made |-> TRUE, f |-> f, result |-> result, oom |-> oom, log |-> log]
  /\ f' = f0
  /\ \E given \in BOOLEAN :
       log' = [given |-> given, log_file |-> FALSE,
               g_cff_log_file |-> log.g_cff_log_file, lines |-> 0]
  /\ pc' = "call"
  /\ result' = NoResult
  /\ oom' = FALSE
  /\ gen' = NoGen
  /\ UNCHANGED <<f0, flags, seed, ctx, skips, origRun, flatRun, enc, buffer,
                 metadata, plainRun, vmvars>>

NextTwice ==
  \/ NextFlatten
  \/ CallAgain

InitTwice ==
  /\ InitCall(ShapedPrograms, SUBSET EveryFlag, Seeds, FALSE)
  /\ \E given \in BOOLEAN : log = [NoLog EXCEPT !.given = given]

SpecTwice == InitTwice /\ [][NextTwice]_vars

\* ------------------------------------------------------------------------
\* luaO_vmProtect called on its own, then luaO_findVMCode
\* ------------------------------------------------------------------------
VMReturn(r) ==
  /\ result' = r
  /\ vmctx' = [pc |-> "returned"]

\* the length check and luaO_initVMContext
VMProtectEntry ==
  /\ vmctx.pc = "call"
  /\ \E ok \in BOOLEAN :
       IF Len(f.code) < 4 THEN VMReturn(0) /\ oom' = oom
       ELSE IF ~ok THEN VMReturn(-1) /\ oom' = TRUE
       ELSE /\ vmctx' = luaO_initVMContext(f, seed)
            /\ UNCHANGED <<result, oom>>
  /\ UNCHANGED <<f, f0, flags, seed, ctx, gen, pc, skips, origRun, flatRun,
                 enc, buffer, metadata, log, prev, plainRun, vm_code_list, found, aside>>

\* luaO_convertToVM; when the VM code array cannot be allocated the context
\* is released and the call fails
VMProtectConvert ==
  /\ vmctx.pc = "convert"
  /\ \E ok \in BOOLEAN :
       IF ~ok THEN VMReturn(-1) /\ oom' = TRUE
       ELSE /\ vmctx' = luaO_convertToVM(vmctx, f.code)
            /\ UNCHANGED <<result, oom>>
  /\ UNCHANGED <<f, f0, flags, seed, ctx, gen, pc, skips, origRun, flatRun,
                 enc, buffer, metadata, log, prev, plainRun, vm_code_list, found, aside>>

\* the flag and the key are stored in the Proto, the context is released
VMProtectFinish ==
  /\ vmctx.pc = "finish"
  /\ f' = luaO_vmProtect(f, vmctx.seed)
  /\ VMReturn(0)
  /\ UNCHANGED <<f0, flags, seed, ctx, gen, pc, oom, skips, origRun, flatRun,
                 enc, buffer, metadata, log, prev, plainRun, vm_code_list, found, aside>>

\* luaO_findVMCode(L, f) after the call; the entry found is cached in the
\* Proto
FindVMCode ==
  /\ vmctx.pc = "returned"
  /\ ~found.asked
  /\ found' = [asked |-> TRUE, entry |-> luaO_findVMCode(vm_code_list, "f")]
  /\ vm_code_list' = [vm_code_list EXCEPT
                        !.vm_code_table["f"] = luaO_findVMCode(vm_code_list, "f")]
  /\ UNCHANGED <<f, f0, flags, seed, ctx, gen, pc, result, oom, skips, origRun,
                 flatRun, enc, buffer, metadata, log, prev, plainRun, vmctx, aside>>

NextVM ==
  \/ VMProtectEntry
  \/ VMProtectConvert
  \/ VMProtectFinish
  \/ FindVMCode

\* luaO_vmProtect(L, f, seed) about to start on a function that has no
\* entry in the side table
InitVM ==
  /\ \E code \in Programs : f = mkProto(code)
  /\ f0 = f
  /\ flags = {"VM_PROTECT"}
  /\ seed \in Seeds
  /\ skips = {}
  /\ ctx = NullCtx
  /\ gen = NoGen
  /\ pc = "idle"
  /\ result = NoResult
  /\ oom = FALSE
  /\ origRun = NoRun
  /\ flatRun = NoRun
  /\ enc = NoEnc
  /\ buffer = NoBuffer
  /\ metadata = NoMetadata
  /\ log = NoLog
  /\ prev = NoPrev
  /\ plainRun = NoPlain
  /\ vmctx = [pc |-> "call"]
  /\ vm_code_list = NoVMCode
  /\ found = NoFound
  /\ pred = NoPred
  /\ heap = NoHeap

SpecVM == InitVM /\ [][NextVM]_vars

\* ------------------------------------------------------------------------
\* luaO_encodeState called on its own
\* ------------------------------------------------------------------------
IdleFlatten ==
  /\ f = mkProto(<<>>)
  /\ f0 = f
  /\ flags = {}
  /\ gen = NoGen
  /\ result = NoResult
  /\ oom = FALSE
  /\ skips = {}
  /\ origRun = NoRun
  /\ flatRun = NoRun
  /\ log = NoLog
  /\ prev = NoPrev
  /\ plainRun = NoPlain
  /\ IdleVM

EncodeState ==
  /\ enc.pc = "call"
  /\ enc' = [enc EXCEPT !.pc = "done",
                        !.encoded = luaO_encodeState(enc.state, seed)]
  /\ UNCHANGED <<f, f0, flags, seed, ctx, gen, pc, result, oom, skips,
                 origRun, flatRun, buffer, metadata, later>>

InitEnc ==
  /\ IdleFlatten
  /\ pc = "idle"
  /\ ctx = NullCtx
  /\ seed \in Seeds
  /\ \E s \in 0..(ENC_RANGE - 1) : enc = [pc |-> "call", state |-> s, encoded |-> -1]
  /\ buffer = NoBuffer
  /\ metadata = NoMetadata

SpecEnc == InitEnc /\ [][EncodeState]_vars

\* ------------------------------------------------------------------------
\* the metadata codec called on the context of a flattening
\* ------------------------------------------------------------------------
BlockLists == {luaO_identifyBlocks(code) : code \in Programs}

neededSize(c) == HeaderSize + SizeofBasicBlock * Len(c.blocks)

SerializeMetadata ==
  /\ pc = "serialize"
  /\ \E r \in {luaO_serializeMetadata(ctx, buffer)} :
         /\ buffer' = r.buffer
         /\ result' = r.ret
         /\ pc' = IF r.ret = 0 /\ ~buffer.isNull THEN "serialized" ELSE "returned"
  /\ UNCHANGED <<f, f0, flags, seed, ctx, gen, oom, skips, origRun, flatRun,
                 enc, metadata, later>>

\* what reaches the reader: the written image, or the image with a wrong
\* magic, a wrong version, or cut inside the header or inside the records
ReceiveBuffer ==
  /\ pc = "serialized"
  /\ \/ buffer' = [buffer EXCEPT !.kind = "intact"]
     \/ buffer' = [buffer EXCEPT !.kind = "magic", !.words[1] = CFF_MAGIC + 1]
     \/ buffer' = [buffer EXCEPT !.kind = "version", !.words[2] = CFF_VERSION + 1]
     \/ \E s \in {0, HeaderSize - 1} :
          buffer' = [buffer EXCEPT !.kind = "short_header", !.size = s]
     \/ \E s \in {HeaderSize, neededSize(ctx) - 1} :
          buffer' = [buffer EXCEPT !.kind = "short_records", !.size = s]
  /\ pc' = "received"
  /\ UNCHANGED <<f, f0, flags, seed, ctx, gen, result, oom, skips, origRun,
                 flatRun, enc, metadata, later>>

DeserializeMetadata ==
  /\ pc = "received"
  /\ \E ok \in BOOLEAN :
       \E r \in {luaO_deserializeMetadata(buffer.words, buffer.size, metadata, ok)} :
           /\ metadata' = r.metadata
           /\ result' = r.ret
           /\ oom' = (oom \/ r.oom)
  /\ pc' = "deserialized"
  /\ UNCHANGED <<f, f0, flags, seed, ctx, gen, skips, origRun, flatRun, enc,
                 buffer, later>>

NextMeta ==
  \/ SerializeMetadata
  \/ ReceiveBuffer
  \/ DeserializeMetadata

\* a context as luaO_flatten holds it after block identification, and the
\* caller's buffer: none, one byte short, exact, or one word longer
InitMeta ==
  /\ IdleFlatten
  /\ pc = "serialize"
  /\ seed \in Seeds
  /\ \E bl \in BlockLists :
       ctx = [initContext(f, {"CFF"}, seed) EXCEPT !.blocks = bl]
  /\ \/ buffer = NoBuffer
     \/ \E cap \in {neededSize(ctx) - 1, neededSize(ctx), neededSize(ctx) + SizeofInt} :
          buffer = [isNull |-> FALSE, words |-> [i \in 1..(cap \div SizeofInt) |-> 0],
                    size |-> cap, kind |-> "none"]
  /\ enc = NoEnc
  /\ metadata = NoMetadata

SpecMeta == InitMeta /\ [][NextMeta]_vars

\* ------------------------------------------------------------------------
\* properties
\* ------------------------------------------------------------------------

\* C1: for every eligible array and every input, the array luaO_flatten
\* produces with the flat dispatcher (CFF, with or without BLOCK_SHUFFLE and
\* STATE_ENCODE) executes the same sequence of original non-control
\* instructions and ends at the same return as the original array.
C1_FlatDispatcherEquivalent ==
  (/\ pc = "returned" /\ result = 0 /\ gen.made
   /\ origRun.status = "ret" /\ flatRun # NoRun)
    => (/\ flatRun.status = "ret"
        /\ flatRun.trace = origRun.trace
        /\ flatRun.ret = origRun.ret)

\* C2: whenever luaO_flatten returns a failure status, the instruction
\* array, its length, the register count, the mode flags and the data word
\* are as they were before the call, on every failing path, the failure of
\* the VM-protection step after flattening included.
C2_FailureLeavesFunctionUntouched ==
  (pc = "returned" /\ result = -1) =>
    /\ f.code = f0.code
    /\ f.maxstacksize = f0.maxstacksize
    /\ f.difierline_mode = f0.difierline_mode
    /\ f.difierline_data = f0.difierline_data

\* C3: luaO_flatten with CFF set on a function with fewer than 4
\* instructions, or fewer than 2 basic blocks, or a loop-control opcode,
\* returns 0 and leaves the instruction array, the register count, the mode
\* flags and the data word unchanged, whatever other flags are set
\* (VM_PROTECT included).  The status is stated for calls in which no
\* allocation failed; the frame holds for every call.
LoopOps == {"FORLOOP", "FORPREP", "TFORPREP", "TFORCALL", "TFORLOOP"}

Ineligible(code) ==
  \/ Len(code) < 4
  \/ \E i \in 1..Len(code) : code[i].op \in LoopOps
  \/ Len(luaO_identifyBlocks(code)) < 2

recordedJumps == gen.all_block_jmp_pcs \o gen.fake_func_jmp_pcs

C4_PlaceholdersPatched ==
  gen.made =>
    /\ \A i \in 1..Len(recordedJumps) :
         LET p == recordedJumps[i]
             target == luaO_getJumpTarget(At(gen.new_code, p), p)
         IN  target >= 0 /\ target < Len(gen.new_code)
    /\ \A i \in 0..(Len(gen.blocks) - 1) :
         LET p == At(gen.all_block_jmp_pcs, i)
         IN  luaO_getJumpTarget(At(gen.new_code, p), p) = At(gen.all_block_starts, i)

\* C6: after luaO_identifyBlocks, and again after luaO_shuffleBlocks with any
\* seed, the state_id values of the n blocks are pairwise distinct and form
\* exactly the set 0..n-1.
stateIds(blocks) == {blocks[i].state_id : i \in 1..Len(blocks)}

C6_StateIdsArePermutation ==
  (pc \in {"shuffle", "generate"}) =>
    /\ stateIds(ctx.blocks) = 0..(Len(ctx.blocks) - 1)
    /\ \A i, j \in 1..Len(ctx.blocks) :
         i # j => ctx.blocks[i].state_id # ctx.blocks[j].state_id

C6_Witness ==
  /\ pc = "generate" /\ "BLOCK_SHUFFLE" \in flags
  /\ Len(ctx.blocks) >= 3
  /\ \E i \in 1..Len(ctx.blocks) : ctx.blocks[i].state_id # i - 1

\* C8: with BOGUS_BLOCKS and n real blocks, the ladder of the flat dispatcher
\* holds exactly 2*n synthetic entries (a comparison of the state register
\* plus a jump for each synthetic state n..3n-1) besides the n real entries;
\* 6 for n = 3.
ladderEntries ==
  {p \in gen.dispatcher_pc..(gen.dispatcher_end - 2) :
     /\ At(gen.new_code, p).op = "EQI"
     /\ At(gen.new_code, p).a = gen.state_reg
     /\ At(gen.new_code, p + 1).op = "JMP"}

comparedState(p) == sC2int(At(gen.new_code, p).b)

stateCode(s) ==
  IF "STATE_ENCODE" \in flags THEN luaO_encodeState(s, gen.seed) ELSE s

realEntries ==
  {p \in ladderEntries :
     comparedState(p) \in {stateCode(s) : s \in stateIds(gen.blocks)}}

C8_BogusLadderEntries ==
  (gen.made /\ "BOGUS_BLOCKS" \in flags) =>
    LET n == Len(gen.blocks)
        synthetic == ladderEntries \ realEntries
    IN  /\ Cardinality(realEntries) = n
        /\ Cardinality(synthetic) = 2 * n
        /\ {comparedState(p) : p \in synthetic}
             = {stateCode(s) : s \in n..(3 * n - 1)}
        /\ n = 3 => Cardinality(synthetic) = 6

C8_Witness ==
  /\ gen.made /\ "BOGUS_BLOCKS" \in flags
  /\ Len(gen.blocks) = 3
  /\ Cardinality(ladderEntries) = 9

\* C5: for an array of the shape [test, JMP to the else part, then-part
\* ending in a return, else-part ending in a return] luaO_identifyBlocks
\* yields exactly 3 blocks, and in the CFF-only flattened code the state
\* register receives the then-block's state when the test skips its JMP and
\* the JMP-target block's state when it does not, so each input reaches the
\* same return as in the original code.
stateOfBlockAt(start) ==
  At(gen.blocks, findBlockStartingAt(gen.blocks, start)).state_id

C5_IfElseBranch ==
  (f0.code \in IfElsePrograms /\ flags = {"CFF"}) =>
    /\ pc \in {"shuffle", "generate"} => Len(ctx.blocks) = 3
    /\ (pc = "returned" /\ result = 0 /\ origRun # NoRun /\ flatRun # NoRun) =>
         LET else_pc == luaO_getJumpTarget(At(f0.code, 1), 1)
             taken == IF 0 \in skips THEN 2 ELSE else_pc
         IN  /\ flatRun.loads = <<<<gen.state_reg, stateOfBlockAt(0)>>,
                                  <<gen.state_reg, stateOfBlockAt(taken)>>>>
             /\ origRun.status = "ret"
             /\ flatRun.status = "ret"
             /\ flatRun.ret = origRun.ret
             /\ flatRun.ret = IF 0 \in skips THEN else_pc - 1
                              ELSE Len(f0.code) - 1
             /\ flatRun.trace = origRun.trace

C5_Witness ==
  /\ f0.code \in IfElsePrograms /\ flags = {"CFF"}
  /\ Len(f0.code) > 4 /\ 0 \in skips
  /\ pc = "returned" /\ flatRun.status = "ret" /\ origRun.status = "ret"
  /\ Len(flatRun.trace) > 0

\* C7: for every fixed seed, luaO_encodeState restricted to 0..29999 is a
\* bijection onto 0..29999: every encoding lies in 0..29999 and distinct
\* states get distinct encodings (the encoding has a left inverse, and an
\* injection of a finite set into itself is onto).
primeInverse ==
  CHOOSE x \in 1..(ENC_RANGE - 1) : (x * ENC_PRIME) % ENC_RANGE = 1

stateOfEncoding(e, s) ==
  (((e + ENC_RANGE - U32Mod(s, ENC_RANGE)) % ENC_RANGE) * primeInverse) % ENC_RANGE

C7_EncodeStateBijective ==
  enc.pc = "done" =>
    /\ enc.encoded \in 0..(ENC_RANGE - 1)
    /\ stateOfEncoding(enc.encoded, seed) = enc.state

C7_Witness ==
  /\ enc.pc = "done" /\ enc.state = ENC_RANGE - 1
  /\ seed # <<0, 0>> /\ enc.encoded # enc.state

C10_RejectLeavesMetadataUntouched ==
  (pc = "deserialized"
   /\ buffer.kind \in {"magic", "version", "short_header", "short_records"}) =>
    /\ result = -1
    /\ metadata = NoMetadata

\* ------------------------------------------------------------------------
\* the opcodes only the engine emits (the input arrays hold calls, tests,
\* returns and jumps), and the registers an instruction reads or writes
EngineOps == {"LOADI", "EQI", "GEI", "EQ", "MUL", "ADD", "SUB", "ADDI", "SHLI",
              "MOVE", "LEN", "MMBIN"}

regsOf(inst) ==
  CASE inst.op \in {"LOADI", "EQI", "GEI"} -> {inst.a}
    [] inst.op \in {"MUL", "ADD", "SUB"} -> {inst.a, inst.b, inst.c}
    [] inst.op \in {"EQ", "ADDI", "SHLI", "MOVE", "LEN", "MMBIN"} -> {inst.a, inst.b}
    [] OTHER -> {}

engineRegs(code) ==
  UNION {regsOf(code[i]) : i \in {j \in 1..Len(code) : code[j].op \in EngineOps}}

Transformed == pc = "returned" /\ result = 0 /\ "CFF" \in f.difierline_mode

\* C11: after a successful transform, under every combination of the eight
\* flags, the register count of the function is not lower than before the
\* call and is greater than every register that an instruction emitted by
\* the engine reads or writes.
C11_RegisterCountCoversEngineRegisters ==
  Transformed =>
    /\ f.maxstacksize >= f0.maxstacksize
    /\ \A r \in engineRegs(f.code) : r < f.maxstacksize

\* a flat transform with fake functions whose code uses the function-id
\* register and the two scratch registers of the fake blocks
C11_Witness ==
  /\ Transformed
  /\ "FUNC_INTERLEAVE" \in flags
  /\ "NESTED_DISPATCHER" \notin flags
  /\ {f0.maxstacksize + 2, f0.maxstacksize + 3, f0.maxstacksize + 4}
        \subseteq engineRegs(f.code)
  /\ f.maxstacksize = f0.maxstacksize + 5
C13_VMCodeRegistered ==
  (found.asked /\ result = 0 /\ Len(f0.code) >= 4) =>
    /\ found.entry # 0
    /\ \E i \in 1..Len(vm_code_list.nodes) :
         /\ vm_code_list.nodes[i].id = found.entry
         /\ vm_code_list.nodes[i].size = Len(f0.code) + 1
\* ------------------------------------------------------------------------
\* whether the transform of a flag shows in what luaO_flatten produced
hasOpaquePredicate ==
  \E i \in 1..Len(gen.new_code) :
     /\ gen.new_code[i].op \in {"GEI", "EQ", "EQI"}
     /\ gen.new_code[i].a = f0.maxstacksize + 3

applied(fl) ==
  CASE fl = "BOGUS_BLOCKS" -> gen.num_bogus_blocks > 0
    [] fl = "OPAQUE_PREDICATES" -> hasOpaquePredicate
    [] fl = "FUNC_INTERLEAVE" -> Len(gen.fake_func_jmp_pcs) > 0
    [] OTHER -> TRUE

\* C14: after a successful transform the mode field of the function has the
\* bit of a transform exactly when the transform was requested and was
\* applied to the emitted code, for each of the eight flags, in flat and in
\* nested mode.
C14_ModeBitsMatchTransforms ==
  Transformed =>
    \A fl \in EveryFlag :
       (fl \in f.difierline_mode) <=> (fl \in flags /\ applied(fl))

\* C15: luaO_unflatten on a function that luaO_flatten has flattened
\* restores the instruction array the function had before flattening.
C15_UnflattenRestoresCode ==
  (pc = "unflattened" /\ gen.made /\ f.difierline_magicnum = CFF_MAGIC) =>
    f.code = f0.code

C18_JumpEndsBlock ==
  (ctx.alive /\ pc \in {"shuffle", "generate", "install"}) =>
    \A i \in 1..Len(ctx.blocks) :
       \A p \in ctx.blocks[i].start_pc..(ctx.blocks[i].end_pc - 2) :
          GET_OPCODE(At(f.code, p)) # "JMP"

\* ------------------------------------------------------------------------
\* execution of the flat dispatcher's output under its decoy flags
\* ------------------------------------------------------------------------
DecoyFlags == {"BOGUS_BLOCKS", "FUNC_INTERLEAVE"}

DecoyFlagSets ==
  {{"CFF"} \cup s : s \in SUBSET {"BLOCK_SHUFFLE", "STATE_ENCODE", "BOGUS_BLOCKS",
                                  "FUNC_INTERLEAVE", "OPAQUE_PREDICATES"}}

\* the context luaO_flatten hands to its generator when every allocation
\* succeeds
contextFor(p, fl, sd) ==
  IF "BLOCK_SHUFFLE" \in fl
  THEN shuffled([initContext(p, fl, sd) EXCEPT !.blocks = luaO_identifyBlocks(p.code)],
                luaO_shuffleBlocks(luaO_identifyBlocks(p.code), sd))
  ELSE [initContext(p, fl, sd) EXCEPT !.blocks = luaO_identifyBlocks(p.code)]

\* the interpreter runs the array luaO_flatten produces for the same
\* function and seed without the decoy flags
RunPlain ==
  /\ pc = "returned" /\ result = 0 /\ "CFF" \in f.difierline_mode
  /\ plainRun = NoPlain
  /\ \E g \in {generateCode(contextFor(f0, flags \ DecoyFlags, seed), f0.code)} :
       plainRun' =
         [run |-> execute(g.ctx.new_code,
                          installCode(f0, g.ctx, flags \ DecoyFlags).maxstacksize,
                          skips),
          all_block_starts |-> g.all_block_starts]
  /\ UNCHANGED <<f, f0, flags, seed, ctx, gen, pc, result, oom, skips, origRun,
                 flatRun, enc, buffer, metadata, log, prev, vmvars>>

NextDecoy ==
  \/ NextExec
  \/ RunPlain

\* if c then <t calls> else <e calls> end return: the then-part ends in a
\* jump to the return, the else-part falls through into it
IfJoin(t, e) ==
  [i \in 1..(t + e + 4) |->
     mkInst(IF i = 1 THEN <<"TEST", 0>>
            ELSE IF i = 2 THEN <<"JMP", t + 3>>
            ELSE IF i = t + 3 THEN <<"JMP", t + e + 3>>
            ELSE IF i = t + e + 4 THEN <<"RETURN1", 0>>
            ELSE <<"CALL", 0>>, i - 1)]

IfJoinPrograms == {IfJoin(t, e) : t \in 0..MaxPart, e \in 0..MaxPart}

InitDecoy ==
  InitWith(ShapedPrograms \cup IfJoinPrograms, DecoyFlagSets, Seeds, TRUE)

SpecDecoy == InitDecoy /\ [][NextDecoy]_vars

\* the flattened array was installed and executed
Executed == pc = "returned" /\ result = 0 /\ gen # NoGen /\ flatRun # NoRun

executedPcs(r) == {r.path[k] : k \in 1..Len(r.path)}

\* the pcs of the jumps that follow the always-true predicates in the ladder
opaqueSkipJumps ==
  {p \in (gen.dispatcher_pc + 1)..(gen.dispatcher_end - 2) :
     /\ GET_OPCODE(At(f.code, p)) = "JMP"
     /\ GET_OPCODE(At(f.code, p - 1)) \in {"GEI", "EQ", "EQI"}
     /\ At(f.code, p - 1).a = gen.state_reg + 3}

fillerPcs == UNION {(p + 1)..(p + 3) : p \in opaqueSkipJumps}

\* C17: with OPAQUE_PREDICATES in the flat dispatcher, no run of the
\* flattened code executes one of the 3 filler instructions that follow an
\* always-true predicate and its skip jump.
C17_FillerNeverExecuted ==
  (Executed /\ "OPAQUE_PREDICATES" \in flags) =>
     executedPcs(flatRun) \cap fillerPcs = {}

\* the state ids of the real blocks as the generated code writes them
realStates ==
  [i \in 1..Len(gen.blocks) |->
     encodedState([obfuscate_flags |-> flags, seed |-> gen.seed],
                  gen.blocks[i].state_id)]

isStateLoad(inst) == GET_OPCODE(inst) = "LOADI" /\ inst.a = gen.state_reg

\* the value of the state register before step k of the run r: the operand
\* of the last load of the state register executed before it
stateBefore(r, k) ==
  LET js == {j \in 1..(k - 1) : isStateLoad(At(f.code, r.path[j]))}
  IN  IF js = {} THEN Undef
      ELSE GETARG_sBx(At(f.code, r.path[CHOOSE j \in js : \A i \in js : i <= j]))

\* the steps of the run r at which control is at the dispatcher start
dispatcherVisits(r) == {k \in 1..Len(r.path) : r.path[k] = gen.dispatcher_pc}

\* C19: in every execution of the flat dispatcher's output (any combination
\* of BLOCK_SHUFFLE, STATE_ENCODE, BOGUS_BLOCKS, FUNC_INTERLEAVE), each time
\* control is at the dispatcher start the state register holds the (encoded)
\* state id of exactly one real block, and the no-match fallback jump is
\* never executed.
C19_StateIsRealAtDispatcher ==
  (Executed /\ "OPAQUE_PREDICATES" \notin flags) =>
     /\ gen.dispatcher_end \notin executedPcs(flatRun)
     /\ \A k \in dispatcherVisits(flatRun) :
          Cardinality({i \in 1..Len(gen.blocks) :
                         realStates[i] = stateBefore(flatRun, k)}) = 1

\* a run that came back to the dispatcher after a block, under both decoy
\* flags and the state encoding
C19_Witness ==
  /\ Executed /\ flatRun.status = "ret"
  /\ {"BOGUS_BLOCKS", "FUNC_INTERLEAVE", "STATE_ENCODE"} \subseteq flags
  /\ "OPAQUE_PREDICATES" \notin flags
  /\ Cardinality(dispatcherVisits(flatRun)) >= 3

\* the ladder jumps of the synthetic states and of the fake-function guards
decoyJumpPcs ==
  {gen.all_block_jmp_pcs[i] :
     i \in (Len(gen.blocks) + 1)..Len(gen.all_block_jmp_pcs)}
  \cup {gen.fake_func_jmp_pcs[i] : i \in 1..Len(gen.fake_func_jmp_pcs)}

\* the pcs of the fake-function islands, which end the array: every block of
\* an island has FAKE_BLOCK_INSTS instructions and a state transition of 2
fakeBlockPcs ==
  IF "FUNC_INTERLEAVE" \in flags
  THEN (Len(f.code) - NUM_FAKE_FUNCTIONS * FAKE_FUNC_BLOCKS * (FAKE_BLOCK_INSTS + 2))
         ..(Len(f.code) - 1)
  ELSE {}

\* the real blocks the run r enters, in order, as indices into the block
\* starts of its array
blocksVisited(r, starts) ==
  LET entered == SelectSeq(r.path, LAMBDA p : \E i \in 1..Len(starts) : starts[i] = p)
  IN  [k \in 1..Len(entered) |->
         CHOOSE i \in 1..Len(starts) : starts[i] = entered[k]]

\* C20: with BOGUS_BLOCKS and/or FUNC_INTERLEAVE, for every seed and with or
\* without STATE_ENCODE, no execution of the flattened code takes a ladder
\* jump of a synthetic state or of a fake-function guard or executes an
\* instruction of a fake-function block, and the blocks visited and the
\* value returned are those of the code flattened without the two flags.
C20_DecoysInert ==
  (Executed /\ flags \cap DecoyFlags # {}) =>
     /\ executedPcs(flatRun) \cap (decoyJumpPcs \cup fakeBlockPcs) = {}
     /\ plainRun # NoPlain =>
          /\ blocksVisited(flatRun, gen.all_block_starts)
               = blocksVisited(plainRun.run, plainRun.all_block_starts)
          /\ flatRun.status = plainRun.run.status
          /\ flatRun.ret = plainRun.run.ret
          /\ flatRun.trace = plainRun.run.trace

\* both runs returned after three blocks, under both decoy flags and the
\* state encoding
C20_Witness ==
  /\ Executed /\ plainRun # NoPlain
  /\ DecoyFlags \cup {"STATE_ENCODE"} \subseteq flags
  /\ flatRun.status = "ret"
  /\ Len(blocksVisited(flatRun, gen.all_block_starts)) >= 3
  /\ Len(f.code) > Len(gen.blocks) * 7 + 84

\* ------------------------------------------------------------------------
\* luaO_identifyBlocks, luaO_shuffleBlocks and partitionBlocksIntoGroups
\* called one after the other on a fresh context
\* ------------------------------------------------------------------------
INITIAL_BLOCK_CAPACITY == 16

MaxChain == 8

\* arrays of every length from 1 on, and if-chains long enough for more
\* than two groups and for a growth of the block array
\* an if-chain followed by the return the compiler adds at the end of
\* every function: an even number of blocks
IfChainRet(k) ==
  [i \in 1..(3 * k + 2) |->
     IF i <= 3 * k + 1 THEN IfChain(k)[i] ELSE mkInst(<<"RETURN1", 0>>, i - 1)]

BlockPrograms ==
  Programs \cup {IfChain(k) : k \in 1..MaxChain}
           \cup {IfChainRet(k) : k \in 1..MaxChain}

\* the variables the three functions leave alone
blockFrame == <<f, f0, flags, seed, gen, skips, origRun, flatRun, enc, buffer,
                metadata, log, plainRun, vmctx, vm_code_list, aside>>

\* the numbers of blocks at which luaO_identifyBlocks can stop on a failed
\* allocation: none (the leader array) or a full block array (addBlock)
RECURSIVE failurePoints(_, _)
failurePoints(n, cap) ==
  IF cap >= n THEN {0} ELSE {cap} \cup failurePoints(n, 2 * cap)

IdentifyBlocks ==
  /\ pc = "blocks"
  /\ \E ok \in BOOLEAN :
       IF ok
       THEN /\ ctx' = [ctx EXCEPT !.blocks = luaO_identifyBlocks(f.code)]
            /\ result' = 0 /\ pc' = "identified" /\ oom' = oom
       ELSE \E k \in failurePoints(Len(partitionBlocks(f.code, <<>>, 0, 1)),
                                   INITIAL_BLOCK_CAPACITY) :
              /\ ctx' = [ctx EXCEPT !.blocks =
                           SubSeq(partitionBlocks(f.code, <<>>, 0, 1), 1, k)]
              /\ result' = -1 /\ pc' = "failed" /\ oom' = TRUE
  /\ UNCHANGED <<blockFrame, prev, found>>

\* prev keeps the context luaO_shuffleBlocks was called with
ShuffleBlocks ==
  /\ pc = "identified"
  /\ prev' = [made |-> TRUE, ctx |-> ctx]
  /\ ctx' = shuffled(ctx, luaO_shuffleBlocks(ctx.blocks, ctx.seed))
  /\ pc' = "shuffled"
  /\ UNCHANGED <<blockFrame, result, oom, found>>

PartitionGroups ==
  /\ pc \in {"identified", "shuffled"}
  /\ \E ok \in BOOLEAN :
       IF ok \/ Len(ctx.blocks) = 0
       THEN /\ ctx' = partitionBlocksIntoGroups(ctx)
            /\ result' = 0 /\ pc' = "grouped" /\ oom' = oom
       ELSE /\ ctx' = [ctx EXCEPT !.num_groups =
                         Max((Len(ctx.blocks) + NESTED_GROUP_SIZE - 1)
                               \div NESTED_GROUP_SIZE, 2)]
            /\ result' = -1 /\ pc' = "failed" /\ oom' = TRUE
  /\ UNCHANGED <<blockFrame, prev, found>>

FindBlockGroup ==
  /\ pc = "grouped"
  /\ found = NoFound
  /\ \E b \in 0..(Len(ctx.blocks) - 1) :
       found' = [asked |-> TRUE, block_idx |-> b, group |-> findBlockGroup(ctx, b)]
  /\ UNCHANGED <<blockFrame, ctx, pc, prev, result, oom>>

NextBlocks ==
  \/ IdentifyBlocks
  \/ ShuffleBlocks
  \/ PartitionGroups
  \/ FindBlockGroup

InitBlocks ==
  /\ \E code \in BlockPrograms : f = mkProto(code)
  /\ f0 = f
  /\ flags = {"CFF"}
  /\ seed \in Seeds
  /\ skips = {}
  /\ ctx = initContext(f, flags, seed)
  /\ gen = NoGen
  /\ pc = "blocks"
  /\ result = NoResult
  /\ oom = FALSE
  /\ origRun = NoRun
  /\ flatRun = NoRun
  /\ enc = NoEnc
  /\ buffer = NoBuffer
  /\ metadata = NoMetadata
  /\ log = NoLog
  /\ prev = NoPrev
  /\ plainRun = NoPlain
  /\ IdleVM

SpecBlocks == InitBlocks /\ [][NextBlocks]_vars

\* luaO_identifyBlocks returned 0 and its blocks are in the context
Identified == pc \in {"identified", "shuffled", "grouped"}

\* the blocks control can enter when the code leaves block b: after a
\* return none, after a test and its jump the block of the jump target and
\* the block after the jump, after a lone jump its target, after a loop
\* instruction its target and the next block, after a test that ends the
\* block the next block and the one after the next instruction, anywhere
\* else the next block
successors(code, blocks, b) ==
  LET last_pc == b.end_pc - 1
      op      == GET_OPCODE(At(code, last_pc))
      at(p)   == {i \in 0..(Len(blocks) - 1) : At(blocks, i).start_pc <= p
                                               /\ p < At(blocks, i).end_pc}
  IN  IF isReturnInstruction(op) THEN {}
      ELSE IF op = "JMP" /\ last_pc > b.start_pc
              /\ isConditionalTest(GET_OPCODE(At(code, last_pc - 1)))
      THEN at(luaO_getJumpTarget(At(code, last_pc), last_pc)) \cup at(b.end_pc)
      ELSE IF op = "JMP"
      THEN at(luaO_getJumpTarget(At(code, last_pc), last_pc))
      ELSE IF luaO_isJumpInstruction(op)
      THEN at(luaO_getJumpTarget(At(code, last_pc), last_pc)) \cup at(b.end_pc)
      ELSE IF isConditionalTest(op)
      THEN at(b.end_pc) \cup at(last_pc + 2)
      ELSE at(b.end_pc)

recorded(b) == {b.original_target, b.fall_through, b.cond_target} \ {-1}

\* C21: for every block of luaO_identifyBlocks the non-none values among
\* original_target, fall_through and cond_target are exactly the blocks
\* control can enter next when the original code leaves the block.
C21_RecordedSuccessors ==
  Identified =>
    \A i \in 1..Len(ctx.blocks) :
       recorded(ctx.blocks[i]) = successors(f.code, ctx.blocks, ctx.blocks[i])

\* C22: after luaO_identifyBlocks succeeds on an array of length L >= 1 the
\* blocks in index order start at 0, each ends where the next starts, the
\* last ends at L, every block is non-empty, and exactly block 0 has
\* is_entry.
C22_BlocksPartitionCode ==
  Identified =>
    /\ Len(ctx.blocks) >= 1
    /\ ctx.blocks[1].start_pc = 0
    /\ ctx.blocks[Len(ctx.blocks)].end_pc = Len(f.code)
    /\ \A i \in 1..(Len(ctx.blocks) - 1) :
         ctx.blocks[i].end_pc = ctx.blocks[i + 1].start_pc
    /\ \A i \in 1..Len(ctx.blocks) :
         /\ ctx.blocks[i].start_pc < ctx.blocks[i].end_pc
         /\ ctx.blocks[i].is_entry <=> (i = 1)

\* an array of fewer than 4 instructions cut into more than one block
C22_Witness ==
  /\ pc = "identified"
  /\ Len(f.code) < 4
  /\ Len(ctx.blocks) >= 2

\* block b with its state id left out
withoutStateId(b) == [b EXCEPT !.state_id = 0]

\* C29: luaO_shuffleBlocks leaves block 0's state_id at 0 and every block's
\* start, end, successor, entry and exit fields as they were; with 2 or
\* fewer blocks it changes nothing at all, the seed of the context included.
C29_ShuffleFrame ==
  pc = "shuffled" =>
    /\ Len(ctx.blocks) = Len(prev.ctx.blocks)
    /\ ctx.blocks[1].state_id = 0
    /\ \A i \in 1..Len(ctx.blocks) :
         withoutStateId(ctx.blocks[i]) = withoutStateId(prev.ctx.blocks[i])
    /\ [ctx EXCEPT !.blocks = <<>>, !.seed = <<0, 0>>]
         = [prev.ctx EXCEPT !.blocks = <<>>, !.seed = <<0, 0>>]
    /\ Len(ctx.blocks) <= 2 => ctx = prev.ctx

\* a shuffle that moved state ids among more than 3 blocks
C29_Witness ==
  /\ pc = "shuffled"
  /\ Len(ctx.blocks) > 3
  /\ ctx.seed # prev.ctx.seed
  /\ \E i \in 2..Len(ctx.blocks) : ctx.blocks[i].state_id # i - 1

\* the groups whose index range holds block index b
groupsOf(c, b) ==
  {k \in 0..(c.num_groups - 1) :
     At(c.group_starts, k) <= b /\ b < At(c.group_starts, k + 1)}

\* C24: for every block count n >= 2 partitionBlocksIntoGroups makes
\* max(2, ceil(n/4)) groups, contiguous increasing index ranges that hold
\* every block index of [0, n) exactly once, none of them empty, and
\* findBlockGroup returns for each block index the group that holds it.
C24_GroupsPartitionBlocks ==
  (pc = "grouped" /\ Len(ctx.blocks) >= 2) =>
    LET n == Len(ctx.blocks) IN
    /\ ctx.num_groups = Max(2, (n + 3) \div 4)
    /\ Len(ctx.group_starts) = ctx.num_groups + 1
    /\ At(ctx.group_starts, 0) = 0
    /\ At(ctx.group_starts, ctx.num_groups) = n
    /\ \A k \in 0..(ctx.num_groups - 1) :
         At(ctx.group_starts, k) < At(ctx.group_starts, k + 1)
    /\ \A b \in 0..(n - 1) : groupsOf(ctx, b) = {findBlockGroup(ctx, b)}
    /\ found # NoFound => groupsOf(ctx, found.block_idx) = {found.group}

\* findBlockGroup answered for a block of the last of more than 2 groups
C24_Witness ==
  /\ pc = "grouped"
  /\ ctx.num_groups > 2
  /\ found # NoFound
  /\ found.group = ctx.num_groups - 1

\* ------------------------------------------------------------------------
\* the opaque predicates evaluated on their own
\* ------------------------------------------------------------------------
NUM_FALSE_VARIANTS == 3

\* the operands emitAlwaysTruePredicate and emitAlwaysFalsePredicate draw:
\* seed % 1000 - 500
RandomOperands == -500..499

\* the registers after the first n instructions of body
RECURSIVE regsAfter(_, _, _)
regsAfter(body, regs, n) ==
  IF n = 0 THEN regs ELSE written(body[n], regsAfter(body, regs, n - 1))

predicateBody(p) ==
  IF p.type = "OP_ALWAYS_TRUE" THEN alwaysTrueBody(0, 1, p.variant, p.random_val)
  ELSE alwaysFalseBody(0, 1, p.variant, p.random_val)

\* the predicate is emitted and run: outcome is what its final comparison
\* finds on the values the instructions before it leave, k is its k operand
EvaluatePredicate ==
  /\ pred.pc = "emit"
  /\ \E body \in {predicateBody(pred)} :
       pred' = [pred EXCEPT
                  !.pc = "done",
                  !.outcome = compare(body[Len(body)],
                                      regsAfter(body, [r \in 0..1 |-> Undef],
                                                Len(body) - 1)),
                  !.k = body[Len(body)].k]
  /\ UNCHANGED <<f, f0, flags, seed, ctx, gen, pc, result, oom, skips, origRun,
                 flatRun, enc, buffer, metadata, log, prev, plainRun, vmctx,
                 vm_code_list, found, heap>>

InitPredicate ==
  /\ f = mkProto(<<>>) /\ f0 = f /\ flags = {} /\ seed = <<0, 0>>
  /\ ctx = NullCtx /\ gen = NoGen /\ pc = "idle" /\ result = NoResult
  /\ oom = FALSE /\ skips = {} /\ origRun = NoRun /\ flatRun = NoRun
  /\ enc = NoEnc /\ buffer = NoBuffer /\ metadata = NoMetadata
  /\ log = NoLog /\ prev = NoPrev /\ plainRun = NoPlain
  /\ vmctx = NoVMCtx /\ vm_code_list = NoVMCode /\ found = NoFound
  /\ heap = NoHeap
  /\ \E t \in {"OP_ALWAYS_TRUE", "OP_ALWAYS_FALSE"}, x \in RandomOperands :
       \E v \in 0..((IF t = "OP_ALWAYS_TRUE" THEN NUM_OPAQUE_VARIANTS
                     ELSE NUM_FALSE_VARIANTS) - 1) :
          pred = [pc |-> "emit", type |-> t, variant |-> v, random_val |-> x,
                  outcome |-> FALSE, k |-> 0]

SpecPredicate == InitPredicate /\ [][EvaluatePredicate]_vars

\* C25 as stated: for every variant and operand in -500..499 the comparison
\* that ends an always-true predicate evaluates to true and the comparison
\* that ends an always-false predicate evaluates to false.
C25_ComparisonOutcome ==
  pred.pc = "done" => (pred.outcome <=> (pred.type = "OP_ALWAYS_TRUE"))

\* C25: for every variant and operand in -500..499 the test that ends an
\* always-true predicate has an outcome that differs from its k operand
\* (it skips the next instruction) and the test that ends an always-false
\* predicate has an outcome equal to its k operand (the next instruction
\* runs).
C25_TestDecision ==
  pred.pc = "done" =>
    (((IF pred.outcome THEN 1 ELSE 0) # pred.k) <=> (pred.type = "OP_ALWAYS_TRUE"))

\* the always-false variant whose comparison is an equality with k = 1
C25_Witness ==
  /\ pred.pc = "done"
  /\ pred.type = "OP_ALWAYS_FALSE"
  /\ pred.k = 1
  /\ pred.outcome
  /\ pred.random_val < 0

\* ------------------------------------------------------------------------
\* the prologue and the fake-function guards of luaO_generateDispatcher for
\* every offset the state encoding can draw from the seed
\* ------------------------------------------------------------------------
\* 0xABCDEF00, the mask of the seed of the guard values
FAKE_ID_SEED_MASK == <<43981, 61184>>

\* one seed for every value of (seed ^ 0xABCDEF00) % 30000
GuardSeeds == {U32Xor(<<0, v>>, FAKE_ID_SEED_MASK) : v \in 0..(ENC_RANGE - 1)}

\* the prologue, then the guards, emitted for the blocks of the function
EmitFakeGuards ==
  /\ pc = "guards"
  /\ \E g \in {emitFakeGuards(dispatcherEntry(contextFor(f, flags, seed)), 0)} :
       gen' = [made |-> TRUE,
               new_code |-> g.ctx.new_code,
               func_id_reg |-> g.ctx.func_id_reg,
               fake_func_jmp_pcs |-> g.fake_func_jmp_pcs]
  /\ pc' = "guarded"
  /\ UNCHANGED <<f, f0, flags, seed, ctx, result, oom, skips, origRun, flatRun,
                 others, log>>

InitGuards ==
  /\ f = mkProto(IfElse(0, 0)) /\ f0 = f
  /\ flags \in {{"CFF", "FUNC_INTERLEAVE"}, {"CFF", "FUNC_INTERLEAVE", "STATE_ENCODE"}}
  /\ seed \in GuardSeeds
  /\ ctx = NullCtx /\ gen = NoGen /\ pc = "guards" /\ result = NoResult
  /\ oom = FALSE /\ skips = {} /\ origRun = NoRun /\ flatRun = NoRun
  /\ enc = NoEnc /\ buffer = NoBuffer /\ metadata = NoMetadata
  /\ log = NoLog /\ prev = NoPrev /\ plainRun = NoPlain
  /\ IdleVM

SpecGuards == InitGuards /\ [][EmitFakeGuards]_vars

\* the value the guard of fake function i (from 0) compares against
guardValue(i) == sC2int(At(gen.new_code, At(gen.fake_func_jmp_pcs, i) - 1).b)

\* the value the prologue loads into the function-id register
realFunctionId ==
  GETARG_sBx(At(gen.new_code,
                CHOOSE p \in 0..(Len(gen.new_code) - 1) :
                  /\ GET_OPCODE(At(gen.new_code, p)) = "LOADI"
                  /\ At(gen.new_code, p).a = gen.func_id_reg))

\* C26: with FUNC_INTERLEAVE, for every seed and with or without
\* STATE_ENCODE, the value each fake function's guard compares the
\* function-id register against differs from the sentinel the prologue
\* loads into that register, and the 3 guard values are pairwise distinct.
C26_GuardValuesReserved ==
  pc = "guarded" =>
    /\ realFunctionId = 0
    /\ \A i \in 0..(NUM_FAKE_FUNCTIONS - 1) : guardValue(i) # realFunctionId
    /\ \A i, j \in 0..(NUM_FAKE_FUNCTIONS - 1) :
         i # j => guardValue(i) # guardValue(j)

\* ------------------------------------------------------------------------
\* convertLuaInstToVM on single instructions: the word is packed and its
\* fields are read back
\* ------------------------------------------------------------------------
\* operand values of each addressing mode: small ones, the largest that
\* fit 16 bits, wider ones, and negative immediates
PackInsts ==
  {CREATE_ABCk(o, a, b, c, k) :
     o \in {"MOVE", "EQI"}, a \in {0, 255}, b \in {0, 65535},
     c \in {0, 65535}, k \in {0, 1}}
  \cup {CREATE_ABx("LOADI", a, sbx + OFFSET_sBx) :
          a \in {0, 255}, sbx \in {-500, 0, 499, 65536}}
  \cup {CREATE_ABx("FORLOOP", a, bx) :
          a \in {0, 255}, bx \in {0, 1, 65535, 65536, 131071}}
  \cup {CREATE_sJ("JMP", sj + OFFSET_sJ, 0) : sj \in {-3, 0, 3, 70000}}

ConvertInst ==
  /\ vmctx.pc = "pack"
  /\ vmctx' = [vmctx EXCEPT
                 !.pc = "packed",
                 !.word = convertLuaInstToVM(vmctx.vc, vmctx.inst, 0).cipher]
  /\ UNCHANGED <<f, f0, flags, seed, ctx, gen, pc, result, oom, skips, origRun,
                 flatRun, enc, buffer, metadata, log, prev, plainRun,
                 vm_code_list, found, aside>>

InitPack ==
  /\ f = mkProto(<<>>) /\ f0 = f /\ flags = {"VM_PROTECT"} /\ seed \in Seeds
  /\ ctx = NullCtx /\ gen = NoGen /\ pc = "idle" /\ result = NoResult
  /\ oom = FALSE /\ skips = {} /\ origRun = NoRun /\ flatRun = NoRun
  /\ enc = NoEnc /\ buffer = NoBuffer /\ metadata = NoMetadata
  /\ log = NoLog /\ prev = NoPrev /\ plainRun = NoPlain
  /\ vm_code_list = NoVMCode /\ found = NoFound
  /\ pred = NoPred /\ heap = NoHeap
  /\ \E inst \in PackInsts :
       vmctx = [pc |-> "pack", vc |-> luaO_initVMContext(f, seed),
                inst |-> inst, word |-> <<>>]

SpecPack == InitPack /\ [][ConvertInst]_vars

\* C30: for every converted instruction, VM_GET_OP, VM_GET_A, VM_GET_B,
\* VM_GET_C and VM_GET_FLAGS of the packed word return the mapped opcode,
\* the operands and the flag handed to VM_MAKE_INST, negative immediates
\* and operands wider than 16 bits included.
C30_FieldsReadBack ==
  vmctx.pc = "packed" =>
    /\ VM_GET_OP(vmctx.word) = vmOperands(vmctx.vc, vmctx.inst).op
    /\ VM_GET_A(vmctx.word) = vmOperands(vmctx.vc, vmctx.inst).a
    /\ VM_GET_B(vmctx.word) = vmOperands(vmctx.vc, vmctx.inst).b
    /\ VM_GET_C(vmctx.word) = vmOperands(vmctx.vc, vmctx.inst).c
    /\ VM_GET_FLAGS(vmctx.word) = vmOperands(vmctx.vc, vmctx.inst).flags

\* the operands that fit their fields are read back
C30_SmallOperandsReadBack ==
  (/\ vmctx.pc = "packed"
   /\ \A x \in {vmOperands(vmctx.vc, vmctx.inst).a,
                 vmOperands(vmctx.vc, vmctx.inst).b,
                 vmOperands(vmctx.vc, vmctx.inst).c} : x \in 0..65535)
  => C30_FieldsReadBack

\* ------------------------------------------------------------------------
\* the side table of VM code under luaO_registerVMCode, luaO_findVMCode and
\* luaO_freeAllVMCode.  heap.allocated counts the entries allocated so far;
\* prev is the history: the entry registered last for each function since
\* the last luaO_freeAllVMCode, and the call made last.
\* ------------------------------------------------------------------------
MaxRegistrations == 3

tableFrame ==
  <<f, f0, flags, seed, ctx, gen, pc, result, skips, origRun, flatRun, enc,
    buffer, metadata, log, plainRun, vmctx, pred>>

\* luaO_registerVMCode(L, p, code, size, ...); when one of its three
\* allocations fails it releases what it holds and returns NULL
RegisterVMCode ==
  /\ heap.allocated < MaxRegistrations
  /\ \E p \in ProtoNames, size \in {5, 9}, ok \in BOOLEAN :
       IF ok
       THEN /\ vm_code_list' = luaO_registerVMCode(vm_code_list, p,
                                                   heap.allocated + 1, size)
            /\ heap' = [heap EXCEPT !.allocated = @ + 1]
            /\ prev' = [latest |-> [prev.latest EXCEPT ![p] = heap.allocated + 1],
                        call |-> "register"]
            /\ oom' = oom
       ELSE /\ prev' = [prev EXCEPT !.call = "register"]
            /\ oom' = TRUE
            /\ UNCHANGED <<vm_code_list, heap>>
  /\ UNCHANGED <<tableFrame, found>>

\* luaO_findVMCode(L, p); an entry found in the list is cached in the Proto
LookupVMCode ==
  /\ \E p \in ProtoNames :
       /\ found' = [asked |-> TRUE, proto |-> p,
                    entry |-> luaO_findVMCode(vm_code_list, p)]
       /\ vm_code_list' = [vm_code_list EXCEPT
                             !.vm_code_table[p] = luaO_findVMCode(vm_code_list, p)]
  /\ prev' = [prev EXCEPT !.call = "find"]
  /\ UNCHANGED <<tableFrame, oom, heap>>

FreeAllVMCode ==
  /\ vm_code_list' = luaO_freeAllVMCode(vm_code_list)
  /\ prev' = [latest |-> [p \in ProtoNames |-> 0], call |-> "free"]
  /\ UNCHANGED <<tableFrame, oom, heap, found>>

NextTable == RegisterVMCode \/ LookupVMCode \/ FreeAllVMCode

InitTable ==
  /\ f = mkProto(<<>>) /\ f0 = f /\ flags = {} /\ seed = <<0, 0>>
  /\ ctx = NullCtx /\ gen = NoGen /\ pc = "idle" /\ result = NoResult
  /\ oom = FALSE /\ skips = {} /\ origRun = NoRun /\ flatRun = NoRun
  /\ enc = NoEnc /\ buffer = NoBuffer /\ metadata = NoMetadata
  /\ log = NoLog /\ plainRun = NoPlain /\ vmctx = NoVMCtx /\ pred = NoPred
  /\ vm_code_list = NoVMCode
  /\ found = NoFound
  /\ heap = [pc |-> "table", allocated |-> 0]
  /\ prev = [latest |-> [p \in ProtoNames |-> 0], call |-> "none"]

SpecTable == InitTable /\ [][NextTable]_vars

\* the ids of the entries in the list, head first
entryIds(table) == [i \in 1..Len(table.nodes) |-> table.nodes[i].id]

\* C28: after any sequence of luaO_registerVMCode, luaO_findVMCode and
\* luaO_freeAllVMCode calls, luaO_findVMCode(p) returns an entry exactly
\* when one was registered for p since the last luaO_freeAllVMCode, and it
\* is the one registered last for p; only luaO_freeAllVMCode removes
\* entries, and it empties the table and clears the table pointer of every
\* registered function.
C28_TableTracksRegistrations ==
  [][/\ \A p \in ProtoNames :
          luaO_findVMCode(vm_code_list', p) = prev'.latest[p]
     /\ found'.asked /\ prev'.call = "find" =>
          found'.entry = prev.latest[found'.proto]
     /\ IF prev'.call = "free"
        THEN /\ vm_code_list'.nodes = <<>>
             /\ \A p \in ProtoNames : vm_code_list'.vm_code_table[p] = 0
        ELSE \E k \in 0..1 :
               SubSeq(entryIds(vm_code_list'), k + 1,
                      Len(vm_code_list'.nodes)) = entryIds(vm_code_list)]_vars

\* a function registered twice, another function registered in between or
\* after, and the lookup answers the later entry of the first
C28_Witness ==
  /\ found.asked
  /\ prev.call = "find"
  /\ found.entry # 0
  /\ \E i \in 1..Len(vm_code_list.nodes) :
       /\ vm_code_list.nodes[i].proto = found.proto
       /\ vm_code_list.nodes[i].id < found.entry
  /\ \E i \in 1..Len(vm_code_list.nodes) :
       vm_code_list.nodes[i].proto # found.proto

\* ------------------------------------------------------------------------
\* the auxiliary arrays of luaO_generateDispatcher and
\* luaO_generateNestedDispatcher.  A call returns at one of its stages: at
\* the failure of an allocation or of an emission, or at its end.  For each
\* array the heap counts the allocations and the releases of the call.
\* ------------------------------------------------------------------------
ArrayNames ==
  {"all_block_jmp_pcs", "bogus_states", "fake_func_jmp_pcs", "all_block_starts",
   "group_jmp_pcs", "inner_dispatcher_pcs", "block_jmp_pcs", "block_starts"}

NoArrays == [a \in ArrayNames |-> [allocs |-> 0, frees |-> 0]]

luaM_malloc(h, S) == [a \in ArrayNames |-> IF a \in S THEN [h[a] EXCEPT !.allocs = @ + 1] ELSE h[a]]
luaM_free(h, S) == [a \in ArrayNames |-> IF a \in S THEN [h[a] EXCEPT !.frees = @ + 1] ELSE h[a]]

\* the return points of luaO_generateDispatcher in the order of the code
FlatStages ==
  <<"prologue", "alloc_jmp_pcs", "alloc_bogus", "ladder", "bogus_ladder",
    "alloc_fake", "fake_guard", "loop_jmp", "alloc_starts", "copy",
    "fake_blocks", "success">>

stagePos(stages, st) == CHOOSE i \in 1..Len(stages) : stages[i] = st

\* the return points the flags of the context make reachable
flatStagesOf(c) ==
  {FlatStages[i] : i \in 1..Len(FlatStages)}
  \ ((IF HasFlag(c, "BOGUS_BLOCKS") THEN {} ELSE {"alloc_bogus", "bogus_ladder"})
      \cup (IF HasFlag(c, "FUNC_INTERLEAVE") THEN {}
            ELSE {"alloc_fake", "fake_guard", "fake_blocks"}))

\* the arrays luaO_generateDispatcher has allocated when it returns at st
flatAllocated(c, st) ==
  (IF stagePos(FlatStages, st) > stagePos(FlatStages, "alloc_jmp_pcs")
   THEN {"all_block_jmp_pcs"} ELSE {})
  \cup (IF /\ HasFlag(c, "BOGUS_BLOCKS")
           /\ stagePos(FlatStages, st) > stagePos(FlatStages, "alloc_bogus")
        THEN {"bogus_states"} ELSE {})
  \cup (IF /\ HasFlag(c, "FUNC_INTERLEAVE")
           /\ stagePos(FlatStages, st) > stagePos(FlatStages, "alloc_fake")
        THEN {"fake_func_jmp_pcs"} ELSE {})
  \cup (IF stagePos(FlatStages, st) > stagePos(FlatStages, "alloc_starts")
        THEN {"all_block_starts"} ELSE {})

\* the arrays the code releases before the return at st
flatReleased(c, st) ==
  CASE st \in {"prologue", "alloc_jmp_pcs"} -> {}
    [] st = "alloc_bogus" -> {"all_block_jmp_pcs"}
    [] st \in {"ladder", "bogus_ladder", "alloc_fake", "loop_jmp", "alloc_starts"} ->
         {"all_block_jmp_pcs"} \cup (flatAllocated(c, st) \cap {"bogus_states"})
    [] st = "fake_guard" ->
         {"fake_func_jmp_pcs", "all_block_jmp_pcs"}
         \cup (flatAllocated(c, st) \cap {"bogus_states"})
    [] st = "copy" -> {"all_block_jmp_pcs", "all_block_starts"}
    [] st = "fake_blocks" ->
         {"fake_func_jmp_pcs", "all_block_jmp_pcs", "all_block_starts"}
    [] OTHER ->
         (flatAllocated(c, st) \cap {"fake_func_jmp_pcs"})
         \cup {"all_block_jmp_pcs", "all_block_starts"}

\* the return points of luaO_generateNestedDispatcher
NestedStages ==
  <<"partition", "prologue", "alloc_group_jmp_pcs", "alloc_inner_dispatcher_pcs",
    "outer_ladder", "alloc_block_jmp_pcs", "alloc_block_starts", "copy",
    "success">>

\* both arrays of a pair are requested before either pointer is tested
nestedAllocated(st) ==
  CASE st \in {"partition", "prologue"} -> {}
    [] st = "alloc_group_jmp_pcs" -> {"inner_dispatcher_pcs"}
    [] st = "alloc_inner_dispatcher_pcs" -> {"group_jmp_pcs"}
    [] st = "outer_ladder" -> {"group_jmp_pcs", "inner_dispatcher_pcs"}
    [] st = "alloc_block_jmp_pcs" ->
         {"group_jmp_pcs", "inner_dispatcher_pcs", "block_starts"}
    [] st = "alloc_block_starts" ->
         {"group_jmp_pcs", "inner_dispatcher_pcs", "block_jmp_pcs"}
    [] OTHER ->
         {"group_jmp_pcs", "inner_dispatcher_pcs", "block_jmp_pcs", "block_starts"}

\* the non-NULL pointers of the failed pair, then cleanup_nested or
\* cleanup_all
nestedReleased(st) ==
  CASE st \in {"partition", "prologue"} -> {}
    [] st = "alloc_group_jmp_pcs" -> {"inner_dispatcher_pcs"}
    [] st = "alloc_inner_dispatcher_pcs" -> {"group_jmp_pcs"}
    [] st = "outer_ladder" -> {"group_jmp_pcs", "inner_dispatcher_pcs"}
    [] st = "alloc_block_jmp_pcs" ->
         {"block_starts"} \cup {"group_jmp_pcs", "inner_dispatcher_pcs"}
    [] st = "alloc_block_starts" ->
         {"block_jmp_pcs"} \cup {"group_jmp_pcs", "inner_dispatcher_pcs"}
    [] OTHER ->
         {"block_jmp_pcs", "block_starts", "group_jmp_pcs", "inner_dispatcher_pcs"}

\* the heap of the call that returns at st
arraysAtReturn(c, st) ==
  IF HasFlag(c, "NESTED_DISPATCHER")
  THEN luaM_free(luaM_malloc(NoArrays, nestedAllocated(st)), nestedReleased(st))
  ELSE luaM_free(luaM_malloc(NoArrays, flatAllocated(c, st)), flatReleased(c, st))

stagesOf(c) ==
  IF HasFlag(c, "NESTED_DISPATCHER")
  THEN {NestedStages[i] : i \in 1..Len(NestedStages)}
  ELSE flatStagesOf(c)

\* the generator luaO_flatten calls, returning at one of its stages; the
\* code is kept when it returns at its end
GenerateTracked ==
  /\ heap.pc = "generate"
  /\ \E st \in stagesOf(ctx) :
       /\ heap' = [pc |-> "returned", stage |-> st,
                   arrays |-> arraysAtReturn(ctx, st)]
       /\ result' = IF st = "success" THEN 0 ELSE -1
       /\ oom' = (st # "success")
       /\ IF st = "success"
          THEN \E g \in {generateCode(ctx, f.code)} :
                  gen' = [made |-> TRUE, new_code |-> g.ctx.new_code,
                          num_bogus_blocks |-> g.num_bogus_blocks]
          ELSE gen' = gen
  /\ UNCHANGED <<f, f0, flags, seed, ctx, pc, skips, origRun, flatRun, enc,
                 buffer, metadata, log, prev, plainRun, vmctx, vm_code_list,
                 found, pred>>

HeapFlagSets ==
  {{"CFF"} \cup s : s \in SUBSET {"BOGUS_BLOCKS", "FUNC_INTERLEAVE",
                                  "NESTED_DISPATCHER"}}

InitHeap ==
  /\ \E code \in ShapedPrograms : f = mkProto(code)
  /\ f0 = f
  /\ flags \in HeapFlagSets
  /\ seed \in Seeds
  /\ ctx = contextFor(f, flags, seed)
  /\ gen = NoGen /\ pc = "generate" /\ result = NoResult
  /\ oom = FALSE /\ skips = {} /\ origRun = NoRun /\ flatRun = NoRun
  /\ enc = NoEnc /\ buffer = NoBuffer /\ metadata = NoMetadata
  /\ log = NoLog /\ prev = NoPrev /\ plainRun = NoPlain
  /\ vmctx = NoVMCtx /\ vm_code_list = NoVMCode /\ found = NoFound
  /\ pred = NoPred
  /\ heap = [pc |-> "generate", stage |-> "none", arrays |-> NoArrays]

SpecHeap == InitHeap /\ [][GenerateTracked]_vars

\* C27: on every return path of luaO_generateDispatcher and
\* luaO_generateNestedDispatcher, success or failure at any step, every
\* auxiliary array allocated during the call has been released exactly
\* once, so none of them is still allocated after luaO_flatten returns.
C27_ArraysReleasedOnce ==
  heap.pc = "returned" =>
    \A a \in ArrayNames :
       /\ heap.arrays[a].allocs <= 1
       /\ heap.arrays[a].frees = heap.arrays[a].allocs

\* the returns of the nested generator release what they allocated
C27_NestedReleasesAll ==
  (heap.pc = "returned" /\ "NESTED_DISPATCHER" \in flags) =>
    \A a \in ArrayNames : heap.arrays[a].frees = heap.arrays[a].allocs

\* ------------------------------------------------------------------------
\* luaO_flatten with the nested dispatcher, then both arrays are executed
\* on the same input
\* ------------------------------------------------------------------------
NestedFlagSets ==
  {{"CFF", "NESTED_DISPATCHER"} \cup s : s \in SUBSET {"BLOCK_SHUFFLE", "STATE_ENCODE"}}

InitNested ==
  InitWith(Programs \cup ShapedPrograms \cup IfJoinPrograms, NestedFlagSets,
           Seeds, TRUE)

SpecNested == InitNested /\ [][NextExec]_vars

\* the groups, the blocks and the seed of the generated code
nestedCtx ==
  [obfuscate_flags |-> flags, seed |-> gen.seed, blocks |-> gen.blocks,
   group_starts |-> gen.group_starts, num_groups |-> Len(gen.group_starts) - 1]

\* the value of register reg before step k of the run r: the operand of the
\* last load of the register executed before it
regBefore(r, k, reg) ==
  LET js == {j \in 1..(k - 1) : /\ GET_OPCODE(At(f.code, r.path[j])) = "LOADI"
                                /\ At(f.code, r.path[j]).a = reg}
  IN  IF js = {} THEN Undef
      ELSE GETARG_sBx(At(f.code, r.path[CHOOSE j \in js : \A i \in js : i <= j]))

\* the steps of the run r at which control is at the outer dispatcher
outerVisits(r) == {k \in 1..Len(r.path) : r.path[k] = gen.outer_dispatcher_pc}

\* the blocks whose group and state id the two registers hold before step k
selectedBlocks(r, k) ==
  {i \in 0..(Len(gen.blocks) - 1) :
     /\ outerState(nestedCtx, findBlockGroup(nestedCtx, i))
          = regBefore(r, k, gen.outer_state_reg)
     /\ innerState(nestedCtx, At(gen.blocks, i).state_id)
          = regBefore(r, k, gen.state_reg)}

\* the relocated blocks follow the ladders; the block that holds pc p
blockOfPc(p) ==
  CHOOSE i \in 0..(Len(gen.blocks) - 1) :
    /\ At(gen.all_block_starts, i) <= p
    /\ \A j \in (i + 1)..(Len(gen.blocks) - 1) : At(gen.all_block_starts, j) > p

inBlocks(p) == p >= At(gen.all_block_starts, 0)

\* the first pc of a block executed after step k, -1 when the run ends in
\* the ladders
reachedAfter(r, k) ==
  LET js == {j \in (k + 1)..Len(r.path) : inBlocks(r.path[j])}
  IN  IF js = {} THEN -1 ELSE r.path[CHOOSE j \in js : \A i \in js : j <= i]

\* the block left before step k, -1 at the first visit
leftBefore(r, k) ==
  LET js == {j \in 1..(k - 1) : inBlocks(r.path[j])}
  IN  IF js = {} THEN -1
      ELSE blockOfPc(r.path[CHOOSE j \in js : \A i \in js : i <= j])

\* the default jumps of the inner dispatchers
innerFallbackPcs ==
  {At(gen.inner_dispatcher_pcs, g)
     + 2 * (At(gen.group_starts, g + 1) - At(gen.group_starts, g)) :
   g \in 0..(Len(gen.inner_dispatcher_pcs) - 1)}

\* the three instructions at p load the group and the state id of block b
\* and jump to the outer dispatcher
transitionAt(p, b) ==
  /\ At(f.code, p) = CREATE_ABx("LOADI", gen.outer_state_reg,
        outerState(nestedCtx, findBlockGroup(nestedCtx, b)) + OFFSET_sBx)
  /\ At(f.code, p + 1) = CREATE_ABx("LOADI", gen.state_reg,
        innerState(nestedCtx, At(gen.blocks, b).state_id) + OFFSET_sBx)
  /\ GET_OPCODE(At(f.code, p + 2)) = "JMP"
  /\ luaO_getJumpTarget(At(f.code, p + 2), p + 2) = gen.outer_dispatcher_pc

\* the pc after the last instruction emitted for block i
emittedEnd(i) ==
  IF i + 1 < Len(gen.blocks) THEN At(gen.all_block_starts, i + 1) ELSE Len(f.code)

endsInTestAndJump(b) ==
  /\ GET_OPCODE(At(f0.code, b.end_pc - 1)) = "JMP"
  /\ b.end_pc - 1 > b.start_pc
  /\ isConditionalTest(GET_OPCODE(At(f0.code, b.end_pc - 2)))

\* C23: with NESTED_DISPATCHER the epilogue of every non-exit block loads
\* the (encoded) group index and state id of its successor and jumps to the
\* outer dispatcher; each time control is at the outer dispatcher the two
\* registers select exactly one block, a successor of the block just left,
\* the dispatch reaches the start of that block, and no default jump of an
\* inner dispatcher is executed.
C23_NestedDispatchReachesSuccessor ==
  Executed =>
    /\ \A i \in 0..(Len(gen.blocks) - 1) :
         ~At(gen.blocks, i).is_exit =>
           /\ \E b \in successors(f0.code, gen.blocks, At(gen.blocks, i)) :
                transitionAt(emittedEnd(i) - 3, b)
           /\ endsInTestAndJump(At(gen.blocks, i)) =>
                /\ transitionAt(emittedEnd(i) - 6,
                                findBlockStartingAt(gen.blocks, At(gen.blocks, i).end_pc))
                /\ transitionAt(emittedEnd(i) - 3,
                                findBlockStartingAt(gen.blocks,
                                  luaO_getJumpTarget(
                                    At(f0.code, At(gen.blocks, i).end_pc - 1),
                                    At(gen.blocks, i).end_pc - 1)))
    /\ executedPcs(flatRun) \cap innerFallbackPcs = {}
    /\ \A k \in outerVisits(flatRun) :
         /\ Cardinality(selectedBlocks(flatRun, k)) = 1
         /\ \A b \in selectedBlocks(flatRun, k) :
              /\ reachedAfter(flatRun, k) \in {-1, At(gen.all_block_starts, b)}
              /\ leftBefore(flatRun, k) >= 0 =>
                   b \in successors(f0.code, gen.blocks,
                                    At(gen.blocks, leftBefore(flatRun, k)))

\* a run under the shuffle and the state encoding that went through a
\* conditional block and came back to the outer dispatcher twice
C23_Witness ==
  /\ Executed /\ flatRun.status = "ret"
  /\ {"BLOCK_SHUFFLE", "STATE_ENCODE"} \subseteq flags
  /\ Cardinality(outerVisits(flatRun)) >= 3
  /\ \E k \in outerVisits(flatRun) :
       /\ leftBefore(flatRun, k) >= 0
       /\ endsInTestAndJump(At(gen.blocks, leftBefore(flatRun, k)))

\* a block of the function holds an unconditional jump before its last
\* instruction
midBlockJump ==
  \E i \in 1..Len(gen.blocks) :
     \E p \in gen.blocks[i].start_pc..(gen.blocks[i].end_pc - 2) :
        GET_OPCODE(At(f0.code, p)) = "JMP"

\* on the functions whose jumps all end their blocks the nested dispatch
\* reaches the successor
C23_WithoutMidBlockJump ==
  (Executed /\ ~midBlockJump) => C23_NestedDispatchReachesSuccessor

====
